---- MODULE Spec2Model ----
(***************************************************************************)
(* Game-state engine of the Blokus client (socha-client-rust-2021):        *)
(* geometry, shape catalog, board, position, move validation, move         *)
(* generation and commit.                                                  *)
(*                                                                         *)
(* Representation notes.                                                   *)
(*  - A Vec2 is the record [x, y].                                         *)
(*  - A CoordinateSet (a u32 bit mask) is the set of its set bit indices.  *)
(*  - A PieceShape is the record [name, coordinates]; equality is the      *)
(*    derived one, on both fields.                                         *)
(*  - Board.fields (a Vec<Field> that Board::set keeps free of duplicate   *)
(*    positions) is the set of its Field records.                          *)
(*  - A result is "Ok", the name of the failure, or "panic".               *)
(***************************************************************************)
EXTENDS Integers, Sequences, FiniteSets, TLC

VARIABLES
    debug_assertions,   \* cfg(debug_assertions) of the build
    origin,             \* the constructor of the position: "new" or "from_node"
    state,              \* the GameState
    calls,              \* number of calls made on it
    last,               \* the last call: [op, move, result, before]
    successor,          \* what the last after_move returned: <<s>> for Ok(s)
    generated,          \* what the last possible_moves returned
    generated_equal     \* and what it returned on an equal position

vars == <<debug_assertions, origin, state, calls, last, successor, generated, generated_equal>>

(***************************************************************************)
(* Program constants                                                       *)
(***************************************************************************)
BOARD_SIZE == 20

MAX_SIDE_LENGTH == 5

(***************************************************************************)
(* Bounds of the model                                                     *)
(***************************************************************************)
\* number of calls on a position, in a build with debug assertions
MaxCalls == 5

\* the same in a build without: every Set move is then committed unchecked
MaxCallsRelease == 1

\* possible_moves is asked in a first-move position, or when the color to
\* move has at most this many shapes left and at most this many calls were
\* made on the position (the client asks it of the position it has just read)
MaxShapesLeft == 2

MaxCallsBefore == 0

\* get_points_from_undeployed is asked of inventories that hold at most this
\* many shapes, or lack at most this many
MaxShapesApart == 2

\* a CoordinateSet is built from at most this many cells, or from the cells
\* of a shape of the catalog
MaxCellsChosen == 2

\* the client is asked for moves while turn is below this
MaxPlayed == 4

\* number of calls on a fresh position in the games explored for the build
\* without debug assertions alone
MaxCallsUnchecked == 2

\* largest number of turns handed to try_advance, and calls of it in a row
MaxTurns == 9

MaxAdvances == 2

\* largest component of a bounding box handed to Board::align, and of a
\* vector that is iterated (the smallest is -1)
MaxArea == 4

MaxTarget == 3

(***************************************************************************)
(* vec2.rs                                                                 *)
(***************************************************************************)
Vec2(x, y) == [x |-> x, y |-> y]

both(value) == Vec2(value, value)

zero == Vec2(0, 0)

MinInt(a, b) == IF a <= b THEN a ELSE b

MaxInt(a, b) == IF a >= b THEN a ELSE b

vec_turn_right(v) == Vec2(-v.y, v.x)

vec_turn_left(v) == Vec2(v.y, -v.x)

vec_flip(v) == Vec2(-v.x, v.y)

vec_min(v, other) == Vec2(MinInt(v.x, other.x), MinInt(v.y, other.y))

vec_max(v, other) == Vec2(MaxInt(v.x, other.x), MaxInt(v.y, other.y))

vec_neg(v) == Vec2(-v.x, -v.y)

vec_add(v, other) == Vec2(v.x + other.x, v.y + other.y)

vec_sub(v, other) == Vec2(v.x - other.x, v.y - other.y)

\* The cells Vec2Iterator yields for the target v (v.x, v.y >= 0)
vec_into_iter(v) == [x : 0..v.x, y : 0..v.y]

\* the same cells in the order Vec2Iterator yields them: x runs first
vec_into_iter_count(v) == (v.x + 1) * (v.y + 1)

vec_into_iter_nth(v, i) == Vec2((i - 1) % (v.x + 1), (i - 1) \div (v.x + 1))

\* iter().fold(seed, |m, c| m.min(c)) and the same with max
RECURSIVE FoldMin(_, _)
FoldMin(seed, cs) ==
    IF cs = {}
    THEN seed
    ELSE LET c == CHOOSE c \in cs : TRUE
         IN  FoldMin(vec_min(seed, c), cs \ {c})

RECURSIVE FoldMax(_, _)
FoldMax(seed, cs) ==
    IF cs = {}
    THEN seed
    ELSE LET c == CHOOSE c \in cs : TRUE
         IN  FoldMax(vec_max(seed, c), cs \ {c})

\* Vec2::into_iter: the assertion, then the iterator at (0, 0)
Vec2_into_iter(self) ==
    IF self.x >= 0 /\ self.y >= 0
    THEN [result |-> "Ok", target |-> self, x |-> 0, y |-> 0]
    ELSE [result |-> "panic", target |-> self, x |-> 0, y |-> 0]

\* mutant: the row ends one cell early
Vec2Iterator_next_short_row(self) ==
    IF self.x > self.target.x \/ self.y > self.target.y
    THEN [iterator |-> self, item |-> <<>>]
    ELSE LET stepped == [self EXCEPT !.x = @ + 1]
         IN  [iterator |-> IF stepped.x >= self.target.x
                           THEN [stepped EXCEPT !.x = 0, !.y = @ + 1]
                           ELSE stepped,
              item |-> <<Vec2(self.x, self.y)>>]

\* Vec2Iterator::next: the iterator after the call and the item, <<>> for None
Vec2Iterator_next(self) ==
    IF self.x > self.target.x \/ self.y > self.target.y
    THEN [iterator |-> self, item |-> <<>>]
    ELSE LET stepped == [self EXCEPT !.x = @ + 1]
         IN  [iterator |-> IF stepped.x > self.target.x
                           THEN [stepped EXCEPT !.x = 0, !.y = @ + 1]
                           ELSE stepped,
              item |-> <<Vec2(self.x, self.y)>>]

(***************************************************************************)
(* rotation.rs, corner.rs, color.rs                                        *)
(***************************************************************************)
ROTATIONS == <<"None", "Left", "Right", "Mirror">>

CORNERS == <<"TopLeft", "TopRight", "BottomLeft", "BottomRight">>

Colors == {"Blue", "Yellow", "Red", "Green"}

team(color) ==
    CASE color \in {"Red", "Blue"} -> "One"
      [] color \in {"Yellow", "Green"} -> "Two"
      [] OTHER -> "None"

(***************************************************************************)
(* piece_shape.rs : CoordinateSet                                          *)
(***************************************************************************)
index_of(coordinates) == (coordinates.y * MAX_SIDE_LENGTH) + coordinates.x

\* the two assertions of index_of
index_of_asserts(coordinates) ==
    /\ coordinates.x >= 0 /\ coordinates.y >= 0
    /\ coordinates.y < MAX_SIDE_LENGTH /\ coordinates.y < MAX_SIDE_LENGTH

CoordinateSet_insert(bits, coordinates) == bits \cup {index_of(coordinates)}

\* mutant: the upper bound is checked on y twice, as in index_of
CoordinateSet_contains_y_twice(bits, coordinates) ==
    /\ coordinates.x >= 0
    /\ coordinates.y >= 0
    /\ coordinates.y < MAX_SIDE_LENGTH
    /\ coordinates.y < MAX_SIDE_LENGTH
    /\ index_of(coordinates) \in bits

CoordinateSet_contains(bits, coordinates) ==
    /\ coordinates.x >= 0
    /\ coordinates.y >= 0
    /\ coordinates.x < MAX_SIDE_LENGTH
    /\ coordinates.y < MAX_SIDE_LENGTH
    /\ index_of(coordinates) \in bits

CoordinateSet_new == {}

RECURSIVE InsertAll(_, _)
InsertAll(bits, coordinates) ==
    IF coordinates = {}
    THEN bits
    ELSE LET c == CHOOSE c \in coordinates : TRUE
         IN  InsertAll(CoordinateSet_insert(bits, c), coordinates \ {c})

CoordinateSet_from(coordinates) == InsertAll(CoordinateSet_new, coordinates)

\* the cells CoordinateSetIterator yields
CoordinateSet_into_iter(bits) ==
    {Vec2(i % MAX_SIDE_LENGTH, i \div MAX_SIDE_LENGTH) :
        i \in {j \in bits : j < MAX_SIDE_LENGTH * MAX_SIDE_LENGTH}}

\* the same cells in the order next() yields them: i runs from 0 to 24 and
\* the cell of i is yielded when bit i is set
CoordinateSetIterator(bits) ==
    LET indices == [i \in 1..(MAX_SIDE_LENGTH * MAX_SIDE_LENGTH) |-> i - 1]
        is_set(i) == i \in bits
        yielded == SelectSeq(indices, is_set)
    IN  [k \in 1..Len(yielded) |->
            Vec2(yielded[k] % MAX_SIDE_LENGTH, yielded[k] \div MAX_SIDE_LENGTH)]

(***************************************************************************)
(* piece_shape.rs : PieceShape                                             *)
(***************************************************************************)
PieceShape_new(name, coordinates) ==
    [name |-> name, coordinates |-> CoordinateSet_from(coordinates)]

PIECE_SHAPES == <<
    PieceShape_new("MONO", {Vec2(0, 0)}),
    PieceShape_new("DOMINO", {Vec2(0, 0), Vec2(1, 0)}),
    PieceShape_new("TRIO_L", {Vec2(0, 0), Vec2(0, 1), Vec2(1, 1)}),
    PieceShape_new("TRIO_I", {Vec2(0, 0), Vec2(0, 1), Vec2(0, 2)}),
    PieceShape_new("TETRO_O", {Vec2(0, 0), Vec2(1, 0), Vec2(0, 1), Vec2(1, 1)}),
    PieceShape_new("TETRO_T", {Vec2(0, 0), Vec2(1, 0), Vec2(2, 0), Vec2(1, 1)}),
    PieceShape_new("TETRO_I", {Vec2(0, 0), Vec2(0, 1), Vec2(0, 2), Vec2(0, 3)}),
    PieceShape_new("TETRO_L", {Vec2(0, 0), Vec2(0, 1), Vec2(0, 2), Vec2(1, 2)}),
    PieceShape_new("TETRO_Z", {Vec2(0, 0), Vec2(1, 0), Vec2(1, 1), Vec2(2, 1)}),
    PieceShape_new("PENTO_L", {Vec2(0, 0), Vec2(0, 1), Vec2(0, 2), Vec2(0, 3), Vec2(1, 3)}),
    PieceShape_new("PENTO_T", {Vec2(0, 0), Vec2(1, 0), Vec2(2, 0), Vec2(1, 1), Vec2(1, 2)}),
    PieceShape_new("PENTO_V", {Vec2(0, 0), Vec2(0, 1), Vec2(0, 2), Vec2(1, 2), Vec2(2, 2)}),
    PieceShape_new("PENTO_S", {Vec2(1, 0), Vec2(2, 0), Vec2(3, 0), Vec2(0, 1), Vec2(1, 1)}),
    PieceShape_new("PENTO_Z", {Vec2(0, 0), Vec2(1, 0), Vec2(1, 1), Vec2(1, 2), Vec2(2, 2)}),
    PieceShape_new("PENTO_I", {Vec2(0, 0), Vec2(0, 1), Vec2(0, 2), Vec2(0, 3), Vec2(0, 4)}),
    PieceShape_new("PENTO_P", {Vec2(0, 0), Vec2(1, 0), Vec2(0, 1), Vec2(1, 1), Vec2(0, 2)}),
    PieceShape_new("PENTO_W", {Vec2(0, 0), Vec2(0, 1), Vec2(1, 1), Vec2(1, 2), Vec2(2, 2)}),
    PieceShape_new("PENTO_U", {Vec2(0, 0), Vec2(0, 1), Vec2(1, 1), Vec2(2, 1), Vec2(2, 0)}),
    PieceShape_new("PENTO_R", {Vec2(0, 1), Vec2(1, 1), Vec2(1, 2), Vec2(2, 1), Vec2(2, 0)}),
    PieceShape_new("PENTO_X", {Vec2(1, 0), Vec2(0, 1), Vec2(1, 1), Vec2(2, 1), Vec2(1, 2)}),
    PieceShape_new("PENTO_Y", {Vec2(0, 1), Vec2(1, 0), Vec2(1, 1), Vec2(1, 2), Vec2(1, 3)})
>>

\* PIECE_SHAPES.iter().cloned().collect() : the catalog as a set
PIECE_SHAPES_SET == {PIECE_SHAPES[i] : i \in 1..Len(PIECE_SHAPES)}

PIECE_SHAPES_BY_NAME ==
    [n \in {s.name : s \in PIECE_SHAPES_SET} |->
        CHOOSE s \in PIECE_SHAPES_SET : s.name = n]

PieceShape_coordinates(shape) == CoordinateSet_into_iter(shape.coordinates)

\* mutant: the cells are made relative to their maximum
PieceShape_align_to_max(coordinates) ==
    LET max_coords == FoldMax(Vec2(-BOARD_SIZE, -BOARD_SIZE), coordinates)
    IN  {vec_sub(c, max_coords) : c \in coordinates}

PieceShape_align(coordinates) ==
    LET min_coords == FoldMin(Vec2(BOARD_SIZE, BOARD_SIZE), coordinates)
    IN  {vec_sub(c, min_coords) : c \in coordinates}

\* mutant: the cells are mirrored along the y-axis, as flip does
mirror_along_y(shape) ==
    PieceShape_new(shape.name,
        PieceShape_align({vec_flip(c) : c \in PieceShape_coordinates(shape)}))

mirror(shape) ==
    PieceShape_new(shape.name,
        PieceShape_align({vec_neg(c) : c \in PieceShape_coordinates(shape)}))

turn_right(shape) ==
    PieceShape_new(shape.name,
        PieceShape_align({vec_turn_right(c) : c \in PieceShape_coordinates(shape)}))

turn_left(shape) ==
    PieceShape_new(shape.name,
        PieceShape_align({vec_turn_left(c) : c \in PieceShape_coordinates(shape)}))

flip(shape) ==
    PieceShape_new(shape.name,
        PieceShape_align({vec_flip(c) : c \in PieceShape_coordinates(shape)}))

rotate(shape, rotation) ==
    CASE rotation = "None" -> shape
      [] rotation = "Mirror" -> mirror(shape)
      [] rotation = "Right" -> turn_right(shape)
      [] rotation = "Left" -> turn_left(shape)

\* mutant: the shape is flipped when the flag is false
transform_flip_inverted(shape, rotation, is_flipped) ==
    LET p == rotate(shape, rotation)
    IN  IF ~is_flipped THEN flip(p) ELSE p

transform(shape, rotation, is_flipped) ==
    LET p == rotate(shape, rotation)
    IN  IF is_flipped THEN flip(p) ELSE p

\* the cells the last step of transform hands to PieceShape::new: those of
\* the clone for (None, false), the output of align otherwise
transform_aligned(shape, rotation, is_flipped) ==
    IF is_flipped
    THEN PieceShape_align({vec_flip(c) :
             c \in PieceShape_coordinates(rotate(shape, rotation))})
    ELSE CASE rotation = "None" -> PieceShape_coordinates(shape)
           [] rotation = "Mirror" ->
                  PieceShape_align({vec_neg(c) : c \in PieceShape_coordinates(shape)})
           [] rotation = "Right" ->
                  PieceShape_align({vec_turn_right(c) : c \in PieceShape_coordinates(shape)})
           [] rotation = "Left" ->
                  PieceShape_align({vec_turn_left(c) : c \in PieceShape_coordinates(shape)})

\* the (rotation, flip) pairs in the order transformations() yields them
transformations ==
    [i \in 1..8 |-> <<ROTATIONS[((i - 1) \div 2) + 1], (i % 2) = 1>>]

bounding_box(shape) ==
    LET min == FoldMin(zero, PieceShape_coordinates(shape))
        max == FoldMax(zero, PieceShape_coordinates(shape))
    IN  vec_sub(max, min)

(***************************************************************************)
(* piece.rs                                                                *)
(***************************************************************************)
Piece(kind, rotation, is_flipped, color, position) ==
    [kind |-> kind, rotation |-> rotation, is_flipped |-> is_flipped,
     color |-> color, position |-> position]

\* transform is a pure function: its values on the catalog, computed once
transform_memo ==
    [shape \in PIECE_SHAPES_SET |->
        [rotation \in {ROTATIONS[i] : i \in 1..Len(ROTATIONS)} |->
            [is_flipped \in BOOLEAN |-> transform(shape, rotation, is_flipped)]]]

Piece_shape(piece) ==
    IF piece.kind \in PIECE_SHAPES_SET
    THEN transform_memo[piece.kind][piece.rotation][piece.is_flipped]
    ELSE transform(piece.kind, piece.rotation, piece.is_flipped)

Piece_coordinates(piece) ==
    {vec_add(c, piece.position) : c \in PieceShape_coordinates(Piece_shape(piece))}

(***************************************************************************)
(* move.rs                                                                 *)
(***************************************************************************)
Skip(color) == [type |-> "Skip", color |-> color]

Set(piece) == [type |-> "Set", piece |-> piece]

Move_color(game_move) ==
    IF game_move.type = "Skip" THEN game_move.color ELSE game_move.piece.color

(***************************************************************************)
(* board.rs                                                                *)
(***************************************************************************)
Board_new == {}

Field(position, content) == [position |-> position, content |-> content]

count_obstructed(fields) == Cardinality({f \in fields : f.content # "None"})

is_in_bounds(coordinates) ==
    /\ coordinates.x >= 0
    /\ coordinates.y >= 0
    /\ coordinates.x < BOARD_SIZE
    /\ coordinates.y < BOARD_SIZE

corner_position(corner) ==
    CASE corner = "TopLeft" -> Vec2(0, 0)
      [] corner = "BottomLeft" -> Vec2(0, BOARD_SIZE - 1)
      [] corner = "TopRight" -> Vec2(BOARD_SIZE - 1, 0)
      [] corner = "BottomRight" -> Vec2(BOARD_SIZE - 1, BOARD_SIZE - 1)

corner_positions == {corner_position(CORNERS[i]) : i \in 1..Len(CORNERS)}

\* mutant: the top right corner is aligned by the height of the area
Board_align_top_right_by_y(area, corner) ==
    LET position == corner_position(corner)
    IN  CASE corner = "TopLeft" -> position
          [] corner = "TopRight" -> Vec2(position.x - area.y, position.y)
          [] corner = "BottomLeft" -> Vec2(position.x, position.y - area.y)
          [] corner = "BottomRight" -> vec_sub(position, area)

Board_align(area, corner) ==
    LET position == corner_position(corner)
    IN  CASE corner = "TopLeft" -> position
          [] corner = "TopRight" -> Vec2(position.x - area.x, position.y)
          [] corner = "BottomLeft" -> Vec2(position.x, position.y - area.y)
          [] corner = "BottomRight" -> vec_sub(position, area)

\* mutant: only the top left corner counts
is_on_corner_top_left_only(position) == position = Vec2(0, 0)

is_on_corner(position) == \E p \in corner_positions : p = position

Board_get(fields, position) ==
    IF \E f \in fields : f.position = position
    THEN (CHOOSE f \in fields : f.position = position).content
    ELSE "None"

Board_set(fields, position, color) ==
    {f \in fields : f.position # position} \cup {Field(position, color)}

RECURSIVE SetAll(_, _, _)
SetAll(fields, positions, color) ==
    IF positions = {}
    THEN fields
    ELSE LET position == CHOOSE position \in positions : TRUE
         IN  SetAll(Board_set(fields, position, color), positions \ {position}, color)

Board_place(fields, piece) == SetAll(fields, Piece_coordinates(piece), piece.color)

is_obstructed(fields, position) ==
    \E f \in fields : f.position = position /\ f.content # "None"

borders_on_color(fields, position, color) ==
    \E o \in {Vec2(1, 0), Vec2(0, 1), Vec2(-1, 0), Vec2(0, -1)} :
        Board_get(fields, vec_add(position, o)) = color

corners_on_color(fields, position, color) ==
    \E o \in {Vec2(1, 1), Vec2(1, 1), Vec2(-1, 1), Vec2(1, -1)} :
        Board_get(fields, vec_add(position, o)) = color

(***************************************************************************)
(* game_state.rs : accessors                                               *)
(***************************************************************************)
GameState_new(start_piece) ==
    [turn |-> 0,
     round |-> 1,
     board |-> Board_new,
     start_piece |-> start_piece,
     start_color |-> "Blue",
     start_team |-> "One",
     ordered_colors |-> <<"Blue", "Yellow", "Red", "Green">>,
     last_move_mono |-> <<>>,
     current_color_index |-> 0,
     blue_shapes |-> PIECE_SHAPES_SET,
     yellow_shapes |-> PIECE_SHAPES_SET,
     red_shapes |-> PIECE_SHAPES_SET,
     green_shapes |-> PIECE_SHAPES_SET]

\* FromXmlNode for GameState: every field is read from the node, but
\* last_move_mono, which starts empty
GameState_from_node(turn, round, board, start_piece, ordered_colors, current_color_index, blue_shapes, yellow_shapes, red_shapes, green_shapes) ==
    [turn |-> turn,
     round |-> round,
     board |-> board,
     start_piece |-> start_piece,
     start_color |-> "Blue",
     start_team |-> "One",
     ordered_colors |-> ordered_colors,
     last_move_mono |-> <<>>,
     current_color_index |-> current_color_index,
     blue_shapes |-> blue_shapes,
     yellow_shapes |-> yellow_shapes,
     red_shapes |-> red_shapes,
     green_shapes |-> green_shapes]

\* ordered_colors[current_color_index] is inside the vector (no index panic)
current_color_in_range(self) == self.current_color_index < Len(self.ordered_colors)

current_color(self) == self.ordered_colors[self.current_color_index + 1]

current_team(self) == team(current_color(self))

undeployed_shapes_of_color(self, color) ==
    CASE color = "Red" -> self.red_shapes
      [] color = "Yellow" -> self.yellow_shapes
      [] color = "Green" -> self.green_shapes
      [] color = "Blue" -> self.blue_shapes

\* *undeployed_shapes_of_color_mut(color) = shapes
undeployed_shapes_of_color_mut(self, color, shapes) ==
    CASE color = "Red" -> [self EXCEPT !.red_shapes = shapes]
      [] color = "Yellow" -> [self EXCEPT !.yellow_shapes = shapes]
      [] color = "Green" -> [self EXCEPT !.green_shapes = shapes]
      [] color = "Blue" -> [self EXCEPT !.blue_shapes = shapes]

SUM_MAX_SQUARES == 89

\* undeployed.iter().map(|p| p.coordinates().count() as i32).sum()
RECURSIVE placed_points(_)
placed_points(undeployed) ==
    IF undeployed = {}
    THEN 0
    ELSE LET p == CHOOSE p \in undeployed : TRUE
         IN  Cardinality(PieceShape_coordinates(p)) + placed_points(undeployed \ {p})

\* mutant: one point per shape instead of one per cell
get_points_from_undeployed_per_shape(undeployed, mono_last) ==
    IF undeployed = {}
    THEN SUM_MAX_SQUARES + 15 + (IF mono_last THEN 5 ELSE 0)
    ELSE SUM_MAX_SQUARES - Cardinality(undeployed)

get_points_from_undeployed(undeployed, mono_last) ==
    IF undeployed = {}
    THEN SUM_MAX_SQUARES + 15 + (IF mono_last THEN 5 ELSE 0)
    ELSE SUM_MAX_SQUARES - placed_points(undeployed)

\* mutant: the inventory looked at is the one of the start color
is_first_move_of_start_color(self) ==
    Cardinality(undeployed_shapes_of_color(self, self.start_color)) = Len(PIECE_SHAPES)

is_first_move(self) ==
    Cardinality(undeployed_shapes_of_color(self, current_color(self))) = Len(PIECE_SHAPES)

(***************************************************************************)
(* game_state.rs : validation                                              *)
(***************************************************************************)
\* mutant: the color of the move is not checked
validate_move_color_unchecked(self, game_move) == "Ok"

validate_move_color(self, game_move) ==
    IF Move_color(game_move) # current_color(self)
    THEN "MoveColorMismatch"
    ELSE "Ok"

\* mutant: the start piece is not asked for on a first move
validate_shape_any_first(self, shape, color) ==
    IF ~(\E p \in undeployed_shapes_of_color(self, color) : p = shape)
    THEN "PieceAlreadyPlaced"
    ELSE "Ok"

validate_shape(self, shape, color) ==
    IF is_first_move(self)
    THEN IF shape # self.start_piece THEN "NotStartShape" ELSE "Ok"
    ELSE IF ~(\E p \in undeployed_shapes_of_color(self, color) : p = shape)
         THEN "PieceAlreadyPlaced"
         ELSE "Ok"

\* the check of one cell inside the loop of validate_set_move
validate_cell(self, piece, coordinates) ==
    IF ~is_in_bounds(coordinates) THEN "OutOfBounds"
    ELSE IF is_obstructed(self.board, coordinates) THEN "Obstructed"
    ELSE IF borders_on_color(self.board, coordinates, piece.color)
         THEN "EdgeNeighborSameColor"
    ELSE "Ok"

\* c is yielded before d by the row-major iteration of the cells
RowMajorBefore(c, d) == c.y < d.y \/ (c.y = d.y /\ c.x <= d.x)

\* mutant: on a first move every cell of the piece has to be on a corner
validate_set_move_all_on_corner(self, piece) ==
    CHOOSE result \in
        {CHOOSE checked \in
            {IF shape_check # "Ok"
             THEN shape_check
             ELSE IF bad # {}
             THEN validate_cell(self, piece,
                      CHOOSE c \in bad : \A d \in bad : RowMajorBefore(c, d))
             ELSE IF is_first_move(self)
             THEN IF ~(\A p \in cells : is_on_corner(p))
                  THEN "MissingCornerAnchor"
                  ELSE "Ok"
             ELSE IF ~(\E p \in cells : corners_on_color(self.board, p, piece.color))
                  THEN "MissingDiagonalTouch"
                  ELSE "Ok" :
                bad \in {{c \in cells : validate_cell(self, piece, c) # "Ok"}}} : TRUE :
            shape_check \in {validate_shape(self, piece.kind, piece.color)},
            cells \in {Piece_coordinates(piece)}} : TRUE

\* the outcome of validate_shape, the cells of the piece and the cells that
\* fail a check are each bound once; the first failing cell in iteration
\* order decides the error
validate_set_move(self, piece) ==
    CHOOSE result \in
        {CHOOSE checked \in
            {IF shape_check # "Ok"
             THEN shape_check
             ELSE IF bad # {}
             THEN validate_cell(self, piece,
                      CHOOSE c \in bad : \A d \in bad : RowMajorBefore(c, d))
             ELSE IF is_first_move(self)
             THEN IF ~(\E p \in cells : is_on_corner(p))
                  THEN "MissingCornerAnchor"
                  ELSE "Ok"
             ELSE IF ~(\E p \in cells : corners_on_color(self.board, p, piece.color))
                  THEN "MissingDiagonalTouch"
                  ELSE "Ok" :
                bad \in {{c \in cells : validate_cell(self, piece, c) # "Ok"}}} : TRUE :
            shape_check \in {validate_shape(self, piece.kind, piece.color)},
            cells \in {Piece_coordinates(piece)}} : TRUE

(***************************************************************************)
(* game_state.rs : commit.  Each operation yields [result, state]; dbg is  *)
(* cfg(debug_assertions).  turn, round and current_color_index are u32;    *)
(* the bound on turn keeps them far from 2^32, so they are plain integers. *)
(***************************************************************************)
Outcome(result, self) == [result |-> result, state |-> self]

\* mutant: turn is assigned instead of add-assigned
try_advance_turn_assigned(self, turns) ==
    IF Len(self.ordered_colors) = 0
    THEN Outcome("GameOver", self)
    ELSE LET len == Len(self.ordered_colors)
             s1 == [self EXCEPT !.current_color_index = (@ + turns) % len]
             s2 == [s1 EXCEPT !.round = @ + (turns \div len)]
             s3 == [s2 EXCEPT !.turn = turns]
         IN  Outcome("Ok", s3)

\* mutant: the cursor is not reduced modulo the length of the queue
try_advance_no_modulo(self, turns) ==
    IF Len(self.ordered_colors) = 0
    THEN Outcome("GameOver", self)
    ELSE LET len == Len(self.ordered_colors)
             s1 == [self EXCEPT !.current_color_index = @ + turns]
             s2 == [s1 EXCEPT !.round = @ + (turns \div len)]
             s3 == [s2 EXCEPT !.turn = @ + turns]
         IN  Outcome("Ok", s3)

\* mutant: the round grows by the number of turns, not by turns / len
try_advance_round_by_turns(self, turns) ==
    IF Len(self.ordered_colors) = 0
    THEN Outcome("GameOver", self)
    ELSE LET len == Len(self.ordered_colors)
             s1 == [self EXCEPT !.current_color_index = (@ + turns) % len]
             s2 == [s1 EXCEPT !.round = @ + turns]
             s3 == [s2 EXCEPT !.turn = @ + turns]
         IN  Outcome("Ok", s3)

try_advance(self, turns) ==
    IF Len(self.ordered_colors) = 0
    THEN Outcome("GameOver", self)
    ELSE LET len == Len(self.ordered_colors)
             s1 == [self EXCEPT !.current_color_index = (@ + turns) % len]
             s2 == [s1 EXCEPT !.round = @ + (turns \div len)]
             s3 == [s2 EXCEPT !.turn = @ + turns]
         IN  Outcome("Ok", s3)

\* mutant: the entry of last_move_mono is true whatever the last piece was
perform_set_move_mono_always(self, piece, dbg) ==
    LET validation == IF dbg THEN validate_set_move(self, piece) ELSE "Ok"
        placed == [self EXCEPT !.board = Board_place(@, piece)]
        undeployed == undeployed_shapes_of_color(placed, piece.color)
                          \ {Piece_shape(piece)}
        removed == undeployed_shapes_of_color_mut(placed, piece.color, undeployed)
        recorded ==
            IF undeployed = {}
            THEN [removed EXCEPT !.last_move_mono =
                     [c \in (DOMAIN @) \cup {piece.color} |->
                         IF c = piece.color THEN TRUE ELSE @[c]]]
            ELSE removed
    IN  IF validation # "Ok"
        THEN Outcome(validation, self)
        ELSE try_advance(recorded, 1)

\* mutant: the shape is taken from the inventory of the color to move
perform_set_move_current_inventory(self, piece, dbg) ==
    LET validation == IF dbg THEN validate_set_move(self, piece) ELSE "Ok"
        placed == [self EXCEPT !.board = Board_place(@, piece)]
        color == IF current_color_in_range(self)
                 THEN current_color(self)
                 ELSE piece.color
        undeployed == undeployed_shapes_of_color(placed, color)
                          \ {Piece_shape(piece)}
        removed == undeployed_shapes_of_color_mut(placed, color, undeployed)
        recorded ==
            IF undeployed = {}
            THEN [removed EXCEPT !.last_move_mono =
                     [c \in (DOMAIN @) \cup {piece.color} |->
                         IF c = piece.color
                         THEN piece.kind = PIECE_SHAPES_BY_NAME["MONO"]
                         ELSE @[c]]]
            ELSE removed
    IN  IF validation # "Ok"
        THEN Outcome(validation, self)
        ELSE try_advance(recorded, 1)

perform_set_move(self, piece, dbg) ==
    LET validation == IF dbg THEN validate_set_move(self, piece) ELSE "Ok"
        placed == [self EXCEPT !.board = Board_place(@, piece)]
        undeployed == undeployed_shapes_of_color(placed, piece.color)
                          \ {Piece_shape(piece)}
        removed == undeployed_shapes_of_color_mut(placed, piece.color, undeployed)
        recorded ==
            IF undeployed = {}
            THEN [removed EXCEPT !.last_move_mono =
                     [c \in (DOMAIN @) \cup {piece.color} |->
                         IF c = piece.color
                         THEN piece.kind = PIECE_SHAPES_BY_NAME["MONO"]
                         ELSE @[c]]]
            ELSE removed
    IN  IF validation # "Ok"
        THEN Outcome(validation, self)
        ELSE try_advance(recorded, 1)

\* mutant: a Skip is accepted on a first move too
perform_skip_move_unchecked(self) ==
    IF ~current_color_in_range(self)
    THEN Outcome("panic", self)
    ELSE try_advance(self, 1)

perform_skip_move(self) ==
    IF ~current_color_in_range(self)
    THEN Outcome("panic", self)
    ELSE IF is_first_move(self)
    THEN Outcome("SkipInFirstMove", self)
    ELSE try_advance(self, 1)

perform_move(self, game_move, dbg) ==
    IF dbg /\ ~current_color_in_range(self)
    THEN Outcome("panic", self)
    ELSE IF dbg /\ validate_move_color(self, game_move) # "Ok"
    THEN Outcome(validate_move_color(self, game_move), self)
    ELSE IF game_move.type = "Set"
    THEN perform_set_move(self, game_move.piece, dbg)
    ELSE perform_skip_move(self)

\* mutant: the move is performed on the receiver, which is returned
after_move_in_place(self, game_move, dbg) ==
    CHOOSE outcome \in
        {[result |-> r.result,
          self |-> r.state,
          value |-> IF r.result = "Ok" THEN <<r.state>> ELSE <<>>] :
            r \in {perform_move(self, game_move, dbg)}} : TRUE

\* yields [result, self, value]: self is the receiver after the call and
\* value is <<s>> for Ok(s), <<>> for an error; r is the outcome of
\* perform_move on the clone
after_move(self, game_move, dbg) ==
    CHOOSE outcome \in
        {[result |-> r.result,
          self |-> self,
          value |-> IF r.result = "Ok" THEN <<r.state>> ELSE <<>>] :
            r \in {perform_move(self, game_move, dbg)}} : TRUE

validate_skip(self) == try_advance(self, 1).result

(***************************************************************************)
(* game_state.rs : move generation                                         *)
(***************************************************************************)
\* the anchors possible_usual_set_moves iterates over for a shape
placable(kind) == vec_sub(both(BOARD_SIZE - 1), bounding_box(kind))

\* piece is one of the pieces possible_usual_set_moves builds before filtering
usual_candidates(self, piece) ==
    /\ piece.kind \in undeployed_shapes_of_color(self, current_color(self))
    /\ \E i \in 1..8 : transformations[i] = <<piece.rotation, piece.is_flipped>>
    /\ piece.color = current_color(self)
    /\ piece.position \in vec_into_iter(placable(piece.kind))

\* mutant: the candidates are not filtered by validate_set_move
possible_usual_set_moves_unfiltered(self, piece) == usual_candidates(self, piece)

\* Set{piece} is one of the moves possible_usual_set_moves yields
possible_usual_set_moves(self, piece) ==
    /\ usual_candidates(self, piece)
    /\ validate_set_move(self, piece) = "Ok"

\* mutant: the anchor is aligned with the bounding box of the untransformed
\* start piece
first_candidates_untransformed_box(self) ==
    [i \in 1..(8 * Len(CORNERS)) |->
        LET t == transformations[((i - 1) \div Len(CORNERS)) + 1]
            corner == CORNERS[((i - 1) % Len(CORNERS)) + 1]
        IN  Piece(self.start_piece, t[1], t[2], current_color(self),
                  Board_align(bounding_box(self.start_piece), corner))]

\* the 32 pieces possible_first_moves builds before filtering, in order
first_candidates(self) ==
    [i \in 1..(8 * Len(CORNERS)) |->
        LET t == transformations[((i - 1) \div Len(CORNERS)) + 1]
            corner == CORNERS[((i - 1) % Len(CORNERS)) + 1]
        IN  Piece(self.start_piece, t[1], t[2], current_color(self),
                  Board_align(bounding_box(transform(self.start_piece, t[1], t[2])),
                              corner))]

possible_first_moves(self) ==
    LET valid(piece) == validate_set_move(self, piece) = "Ok"
        pieces == SelectSeq(first_candidates(self), valid)
    IN  [i \in 1..Len(pieces) |-> Set(pieces[i])]

\* game_move is one of the moves possible_moves yields
possible_moves(self, game_move) ==
    IF is_first_move(self)
    THEN LET moves == possible_first_moves(self)
         IN  \E i \in 1..Len(moves) : moves[i] = game_move
    ELSE \/ /\ game_move.type = "Set"
            /\ possible_usual_set_moves(self, game_move.piece)
         \/ /\ game_move = Skip(current_color(self))
            /\ validate_skip(self) = "Ok"

\* the moves the closure of possible_usual_set_moves collects for one kind:
\* transformations outermost, anchors in the order of the Vec2 iterator,
\* filtered by validate_set_move
usual_set_moves_of_kind(self, kind) ==
    LET n == vec_into_iter_count(placable(kind))
        candidates ==
            [i \in 1..(8 * n) |->
                LET t == transformations[((i - 1) \div n) + 1]
                IN  Set(Piece(kind, t[1], t[2], current_color(self),
                              vec_into_iter_nth(placable(kind), ((i - 1) % n) + 1)))]
        valid(game_move) == validate_set_move(self, game_move.piece) = "Ok"
    IN  SelectSeq(candidates, valid)

\* flat_map over the shapes in the order the HashSet iterator yields them
RECURSIVE FlatMapKinds(_, _)
FlatMapKinds(self, iteration) ==
    IF iteration = <<>>
    THEN <<>>
    ELSE usual_set_moves_of_kind(self, Head(iteration))
             \o FlatMapKinds(self, Tail(iteration))

\* The sequence possible_usual_set_moves yields.  iteration is the order in
\* which the HashSet of the color to move yields its shapes: the order of a
\* std HashSet depends on the random keys of its hasher, not on its elements.
possible_usual_set_moves_vec(self, iteration) == FlatMapKinds(self, iteration)

\* mutant: the Skip is chained whether or not validate_skip accepts it, and
\* in front of the Set moves
possible_moves_vec_skip_first(self, iteration) ==
    IF ~current_color_in_range(self)
    THEN [result |-> "panic", value |-> <<>>]
    ELSE IF is_first_move(self)
    THEN [result |-> "Ok", value |-> possible_first_moves(self)]
    ELSE [result |-> "Ok",
          value |-> <<Skip(current_color(self))>>
                        \o possible_usual_set_moves_vec(self, iteration)]

\* The sequence possible_moves yields, as [result, value]; the call panics
\* in current_color() when the cursor is outside ordered_colors.
possible_moves_vec(self, iteration) ==
    IF ~current_color_in_range(self)
    THEN [result |-> "panic", value |-> <<>>]
    ELSE IF is_first_move(self)
    THEN [result |-> "Ok", value |-> possible_first_moves(self)]
    ELSE [result |-> "Ok",
          value |-> possible_usual_set_moves_vec(self, iteration)
                        \o (IF validate_skip(self) = "Ok"
                            THEN <<Skip(current_color(self))>>
                            ELSE <<>>)]

(***************************************************************************)
(* The calls the environment makes                                         *)
(***************************************************************************)
\* start pieces GameState::new is called with
StartPieces == {"MONO", "TRIO_I"}

\* kinds, anchors and colors of the Set moves handed to perform_move
InputKinds == {"MONO", "TRIO_I"}

InputPositions ==
    {Vec2(0, 0), Vec2(19, 0), Vec2(0, 19), Vec2(19, 19),
     Vec2(17, 19), Vec2(1, 1), Vec2(1, 16), Vec2(1, 18)}

\* the color to move and the color after it (Blue when there is none)
InputColors(self) ==
    IF current_color_in_range(self)
    THEN {current_color(self),
          self.ordered_colors[((self.current_color_index + 1)
                                  % Len(self.ordered_colors)) + 1]}
    ELSE {"Blue"}

InputSetMoves(self) ==
    {Set(Piece(PIECE_SHAPES_BY_NAME[k], ROTATIONS[r], f, c, p)) :
        k \in InputKinds, r \in 1..Len(ROTATIONS), f \in BOOLEAN,
        c \in InputColors(self), p \in InputPositions}

InputSkipMoves == {Skip(c) : c \in Colors}

NoMove == [type |-> "None"]

\* Positions read from a node, in the middle of a game: the turn queue is
\* empty, holds one color or all four; the cursor is 0 or 1; Blue has placed
\* all but one or two of its shapes (a blue cell in the bottom left corner
\* stands for its pieces), the other colors none.
ParsedQueues == {<<>>, <<"Blue">>, <<"Blue", "Yellow", "Red", "Green">>}

ParsedIndexes == {0, 1}

ParsedBlueShapes ==
    {{PIECE_SHAPES_BY_NAME["TRIO_I"]},
     {PIECE_SHAPES_BY_NAME["MONO"], PIECE_SHAPES_BY_NAME["TRIO_I"]}}

ParsedPosition(queue, index, blue) ==
    GameState_from_node(4, 1, {Field(Vec2(0, 19), "Blue")},
        PIECE_SHAPES_BY_NAME["MONO"], queue, index, blue,
        PIECE_SHAPES_SET, PIECE_SHAPES_SET, PIECE_SHAPES_SET)

InitNew ==
    /\ origin = "new"
    /\ \E sp \in StartPieces : state = GameState_new(PIECE_SHAPES_BY_NAME[sp])

InitFromNode ==
    /\ origin = "from_node"
    /\ \E queue \in ParsedQueues, index \in ParsedIndexes, blue \in ParsedBlueShapes :
           state = ParsedPosition(queue, index, blue)

Init ==
    /\ debug_assertions \in BOOLEAN
    /\ InitNew \/ InitFromNode
    /\ calls = 0
    /\ last = [op |-> "new", move |-> NoMove, result |-> "Ok", before |-> state]
    /\ successor = <<>>
    /\ generated = <<>>
    /\ generated_equal = <<>>

\* The driver goes on with a position only after a call that succeeded, and
\* the bound on the number of calls allows the call.  A query (after_move,
\* possible_moves) takes &self: what can follow it is what can follow the
\* position without it, so the exploration does not go on behind a query.
CanCall ==
    /\ last.result = "Ok"
    /\ last.op \in {"new", "perform_move"}
    /\ calls < (IF debug_assertions THEN MaxCalls ELSE MaxCallsRelease)

Perform(game_move) ==
    /\ CanCall
    /\ LET r == perform_move(state, game_move, debug_assertions)
       IN  /\ state' = r.state
           /\ last' = [op |-> "perform_move", move |-> game_move,
                       result |-> r.result, before |-> state]
    /\ calls' = calls + 1
    /\ UNCHANGED <<debug_assertions, origin, successor, generated, generated_equal>>

AfterMove(game_move) ==
    /\ CanCall
    /\ \E r \in {after_move(state, game_move, debug_assertions)} :
           /\ state' = r.self
           /\ successor' = r.value
           /\ last' = [op |-> "after_move", move |-> game_move,
                       result |-> r.result, before |-> state]
    /\ calls' = calls + 1
    /\ UNCHANGED <<debug_assertions, origin, generated, generated_equal>>

\* the orders in which a HashSet holding shapes can yield them
IterationOrders(shapes) ==
    {o \in [1..Cardinality(shapes) -> shapes] :
        \A i, j \in 1..Cardinality(shapes) : i # j => o[i] # o[j]}

\* The orders that matter to possible_moves on self: those of the inventory
\* of the color to move, when the position is not a first move.
GenerationOrders(self) ==
    IF current_color_in_range(self) /\ ~is_first_move(self)
    THEN IterationOrders(undeployed_shapes_of_color(self, current_color(self)))
    ELSE {<<>>}

GenerationInBound(self) ==
    (current_color_in_range(self) /\ ~is_first_move(self))
        => /\ Cardinality(undeployed_shapes_of_color(self, current_color(self)))
                  <= MaxShapesLeft
           /\ calls <= MaxCallsBefore

\* possible_moves() on the position, and on a position equal to it whose
\* HashSets were built on their own (as by GameState::new or from_node)
PossibleMoves ==
    /\ CanCall
    /\ GenerationInBound(state)
    /\ \E iteration \in GenerationOrders(state),
          iteration_equal \in GenerationOrders(state) :
           \E r \in {possible_moves_vec(state, iteration)},
              q \in {possible_moves_vec(state, iteration_equal)} :
               /\ generated' = r.value
               /\ generated_equal' = q.value
               /\ last' = [op |-> "possible_moves", move |-> NoMove,
                           result |-> r.result, before |-> state]
    /\ calls' = calls + 1
    /\ UNCHANGED <<debug_assertions, origin, state, successor>>

\* the moves handed to perform_move and after_move
InputMoves(self) == InputSetMoves(self) \cup InputSkipMoves

PerformInput == \E m \in InputMoves(state) : Perform(m)

AfterInput == \E m \in InputMoves(state) : AfterMove(m)

Next == PerformInput \/ AfterInput \/ PossibleMoves

Spec == Init /\ [][Next]_vars

(***************************************************************************)
(* The end of a game.  A color empties its inventory with its 21st         *)
(* placement, far behind the bound on the calls from a fresh position, so  *)
(* the second specification starts from late positions of one game, each   *)
(* computed from GameState::new by the perform_move calls of the game in a *)
(* build with debug assertions: start piece DOMINO; Blue, Yellow, Red and  *)
(* Green set it in the corners; then Blue sets a shape, untransformed,     *)
(* and the three other colors skip, eighteen times over.  Blue is left     *)
(* with MONO and TRIO_I, or with one of them.                              *)
(***************************************************************************)
Untransformed(name, color, x, y) ==
    Set(Piece(PIECE_SHAPES_BY_NAME[name], "None", FALSE, color, Vec2(x, y)))

EndgameFirstMoves ==
    <<Untransformed("DOMINO", "Blue", 18, 19),
      Untransformed("DOMINO", "Yellow", 0, 0),
      Untransformed("DOMINO", "Red", 18, 0),
      Untransformed("DOMINO", "Green", 0, 19)>>

\* the shapes Blue sets after the start piece, and their anchors
EndgamePlacements ==
    <<
     <<"PENTO_W", 15, 16>>, <<"PENTO_L", 13, 12>>, <<"PENTO_I", 12, 7>>,
     <<"PENTO_Z", 9, 4>>, <<"PENTO_V", 6, 1>>, <<"PENTO_T", 10, 16>>,
     <<"PENTO_S", 6, 15>>, <<"TETRO_L", 4, 15>>, <<"PENTO_X", 1, 13>>,
     <<"PENTO_R", 6, 5>>, <<"TETRO_T", 3, 0>>, <<"TETRO_O", 4, 7>>,
     <<"PENTO_P", 17, 14>>, <<"PENTO_Y", 4, 11>>, <<"TETRO_Z", 2, 2>>,
     <<"TETRO_I", 15, 11>>, <<"TRIO_L", 2, 10>>, <<"PENTO_U", 0, 4>>
    >>

\* a placement of Blue and the skips of the three other colors
EndgameRound(name, x, y) ==
    <<Untransformed(name, "Blue", x, y), Skip("Yellow"), Skip("Red"), Skip("Green")>>

RECURSIVE EndgameRounds(_)
EndgameRounds(placements) ==
    IF placements = <<>>
    THEN <<>>
    ELSE EndgameRound(Head(placements)[1], Head(placements)[2], Head(placements)[3])
             \o EndgameRounds(Tail(placements))

\* the last rounds of the game that the model may find already played
EndgameTails ==
    {<<>>, EndgameRound("MONO", 1, 1), EndgameRound("TRIO_I", 1, 16)}

\* perform_move of the moves in turn, as long as they succeed
RECURSIVE Replay(_, _)
Replay(self, game_moves) ==
    IF game_moves = <<>>
    THEN Outcome("Ok", self)
    ELSE IF Len(game_moves) = 1
    THEN perform_move(self, Head(game_moves), TRUE)
    ELSE CHOOSE outcome \in
             {IF r.result # "Ok"
              THEN r
              ELSE Replay(r.state, SubSeq(game_moves, (Len(game_moves) \div 2) + 1,
                                          Len(game_moves))) :
                 r \in {Replay(self, SubSeq(game_moves, 1, Len(game_moves) \div 2))}} : TRUE

EndgamePosition ==
    Replay(GameState_new(PIECE_SHAPES_BY_NAME["DOMINO"]),
           EndgameFirstMoves \o EndgameRounds(EndgamePlacements))

InitEndgame ==
    /\ debug_assertions \in BOOLEAN
    /\ origin = "new"
    /\ EndgamePosition.result = "Ok"
    /\ \E tail \in EndgameTails :
           \E r \in {Replay(EndgamePosition.state, tail)} :
               r.result = "Ok" /\ state = r.state
    /\ calls = 0
    /\ last = [op |-> "new", move |-> NoMove, result |-> "Ok", before |-> state]
    /\ successor = <<>>
    /\ generated = <<>>
    /\ generated_equal = <<>>

SpecEndgame == InitEndgame /\ [][Next]_vars

(***************************************************************************)
(* Calls of the functions that take no position: each is made once, on     *)
(* inputs drawn from bounded sets, and recorded in last.                   *)
(***************************************************************************)
\* the sets of at most n shapes of the catalog
RECURSIVE ShapeSetsUpTo(_)
ShapeSetsUpTo(n) ==
    IF n = 0
    THEN {{}}
    ELSE UNION {{s, s \cup {p}} : s \in ShapeSetsUpTo(n - 1), p \in PIECE_SHAPES_SET}

\* inventories handed to get_points_from_undeployed: at most MaxShapesApart
\* shapes, or all but at most MaxShapesApart shapes
PointsInputs ==
    UNION {{s, PIECE_SHAPES_SET \ s} : s \in ShapeSetsUpTo(MaxShapesApart)}

InitShapes ==
    /\ debug_assertions \in BOOLEAN
    /\ origin = "new"
    /\ state = GameState_new(PIECE_SHAPES_BY_NAME["PENTO_Y"])
    /\ calls = 0
    /\ last = [op |-> "new", move |-> NoMove, result |-> "Ok", before |-> state]
    /\ successor = <<>>
    /\ generated = <<>>
    /\ generated_equal = <<>>

Points ==
    /\ last.op = "new"
    /\ \E undeployed \in PointsInputs, mono_last \in BOOLEAN :
           last' = [op |-> "get_points_from_undeployed",
                    undeployed |-> undeployed,
                    mono_last |-> mono_last,
                    value |-> get_points_from_undeployed(undeployed, mono_last)]
    /\ calls' = calls + 1
    /\ UNCHANGED <<debug_assertions, origin, state, successor, generated, generated_equal>>

\* transform on a shape of the catalog
Transformed ==
    /\ last.op = "new"
    /\ \E kind \in PIECE_SHAPES_SET, i \in 1..8 :
           last' = [op |-> "transform",
                    kind |-> kind,
                    rotation |-> transformations[i][1],
                    is_flipped |-> transformations[i][2],
                    aligned |-> transform_aligned(kind, transformations[i][1],
                                                  transformations[i][2]),
                    value |-> transform(kind, transformations[i][1],
                                        transformations[i][2])]
    /\ calls' = calls + 1
    /\ UNCHANGED <<debug_assertions, origin, state, successor, generated, generated_equal>>

\* the cells of the 5x5 window
Window == [x : 0..(MAX_SIDE_LENGTH - 1), y : 0..(MAX_SIDE_LENGTH - 1)]

RECURSIVE CellSetsUpTo(_)
CellSetsUpTo(n) ==
    IF n = 0
    THEN {{}}
    ELSE UNION {{s, s \cup {c}} : s \in CellSetsUpTo(n - 1), c \in Window}

CoordinateSetInputs ==
    CellSetsUpTo(MaxCellsChosen)
        \cup {PieceShape_coordinates(p) : p \in PIECE_SHAPES_SET}
        \cup {Window}

\* the cells contains is asked about: the window, the ring around it, and
\* cells further out whose index falls on a bit of the mask
ContainsInputs ==
    [x : (-1)..MAX_SIDE_LENGTH, y : (-1)..MAX_SIDE_LENGTH]
        \cup {Vec2(7, 0), Vec2(9, 3), Vec2(0, 5), Vec2(4, 6)}

\* CoordinateSet::from on a set of cells, then into_iter and contains
RoundTrip ==
    /\ last.op = "new"
    /\ \E cells \in CoordinateSetInputs :
           \E bits \in {CoordinateSet_from(cells)} :
               last' = [op |-> "CoordinateSet",
                        cells |-> cells,
                        bits |-> bits,
                        iterated |-> CoordinateSetIterator(bits),
                        contained |-> {v \in ContainsInputs :
                                          CoordinateSet_contains(bits, v)}]
    /\ calls' = calls + 1
    /\ UNCHANGED <<debug_assertions, origin, state, successor, generated, generated_equal>>

NextShapes == Points \/ Transformed \/ RoundTrip

SpecShapes == InitShapes /\ [][NextShapes]_vars

(***************************************************************************)
(* logic.rs : a game played by the client.  request_move collects          *)
(* possible_moves() and picks one of them at random; the move is then      *)
(* performed on the position.                                              *)
(***************************************************************************)
\* start pieces of the games played beyond the first move
PlayStartPieces == {"PENTO_Y"}

InitPlay ==
    /\ debug_assertions \in BOOLEAN
    /\ origin = "new"
    /\ \E start_piece \in PIECE_SHAPES_SET : state = GameState_new(start_piece)
    /\ calls = 0
    /\ last = [op |-> "new", move |-> NoMove, result |-> "Ok", before |-> state]
    /\ successor = <<>>
    /\ generated = <<>>
    /\ generated_equal = <<>>

\* The moves of possible_moves() the choice is made among: all of them in a
\* first-move position, else the Skip and the Set moves of the input kinds
\* and anchors that possible_moves() holds.
RequestableMoves(self) ==
    IF is_first_move(self)
    THEN UNION {{moves[i] : i \in 1..Len(moves)} :
                   moves \in {possible_first_moves(self)}}
    ELSE {m \in InputMoves(self) : possible_moves(self, m)}

\* request_move, then perform_move of the chosen move; expect("No move
\* found") panics when possible_moves() is empty
RequestMove ==
    /\ last.result = "Ok"
    /\ last.op \in {"new", "request_move"}
    /\ state.turn < MaxPlayed
    /\ state.turn = 0 \/ state.start_piece.name \in PlayStartPieces
    /\ \E moves \in {RequestableMoves(state)} :
           IF moves = {}
           THEN /\ state' = state
                /\ last' = [op |-> "request_move", move |-> NoMove,
                            result |-> "panic", before |-> state]
           ELSE \E m \in moves :
                    \E r \in {perform_move(state, m, debug_assertions)} :
                        /\ state' = r.state
                        /\ last' = [op |-> "request_move", move |-> m,
                                    result |-> r.result, before |-> state]
    /\ calls' = calls + 1
    /\ UNCHANGED <<debug_assertions, origin, successor, generated, generated_equal>>

NextPlay == RequestMove

SpecPlay == InitPlay /\ [][NextPlay]_vars

(***************************************************************************)
(* The build without debug assertions, on fresh positions: perform_move    *)
(* commits every Set move without validating it.                           *)
(***************************************************************************)
InitRelease ==
    /\ debug_assertions = FALSE
    /\ origin = "new"
    /\ \E name \in StartPieces : state = GameState_new(PIECE_SHAPES_BY_NAME[name])
    /\ calls = 0
    /\ last = [op |-> "new", move |-> NoMove, result |-> "Ok", before |-> state]
    /\ successor = <<>>
    /\ generated = <<>>
    /\ generated_equal = <<>>

PerformRelease ==
    /\ last.result = "Ok"
    /\ calls < MaxCallsUnchecked
    /\ \E m \in InputMoves(state) :
           \E r \in {perform_move(state, m, debug_assertions)} :
               /\ state' = r.state
               /\ last' = [op |-> "perform_move", move |-> m,
                           result |-> r.result, before |-> state]
    /\ calls' = calls + 1
    /\ UNCHANGED <<debug_assertions, origin, successor, generated, generated_equal>>

NextRelease == PerformRelease

SpecRelease == InitRelease /\ [][NextRelease]_vars

(***************************************************************************)
(* try_advance called with any number of turns, on fresh and on parsed     *)
(* positions (a parsed turn queue may be empty)                            *)
(***************************************************************************)
InitAdvance ==
    /\ debug_assertions \in BOOLEAN
    /\ InitNew \/ InitFromNode
    /\ calls = 0
    /\ last = [op |-> "new", move |-> NoMove, result |-> "Ok", before |-> state]
    /\ successor = <<>>
    /\ generated = <<>>
    /\ generated_equal = <<>>

TryAdvance ==
    /\ calls < MaxAdvances
    /\ \E turns \in 0..MaxTurns :
           \E r \in {try_advance(state, turns)} :
               /\ state' = r.state
               /\ last' = [op |-> "try_advance", turns |-> turns,
                           result |-> r.result, before |-> state]
    /\ calls' = calls + 1
    /\ UNCHANGED <<debug_assertions, origin, successor, generated, generated_equal>>

NextAdvance == TryAdvance

SpecAdvance == InitAdvance /\ [][NextAdvance]_vars

(***************************************************************************)
(* color.rs, team.rs, rotation.rs, piece_shape.rs : FromStr and Display    *)
(* A string is the sequence of its characters.                             *)
(***************************************************************************)
LowercaseLetters == <<"a", "b", "c", "d", "e", "f", "g", "h", "i", "j", "k", "l", "m", "n", "o", "p", "q", "r", "s", "t", "u", "v", "w", "x", "y", "z">>

UppercaseLetters == <<"A", "B", "C", "D", "E", "F", "G", "H", "I", "J", "K", "L", "M", "N", "O", "P", "Q", "R", "S", "T", "U", "V", "W", "X", "Y", "Z">>

char_to_uppercase(c) ==
    IF \E i \in 1..Len(LowercaseLetters) : LowercaseLetters[i] = c
    THEN UppercaseLetters[CHOOSE i \in 1..Len(LowercaseLetters) : LowercaseLetters[i] = c]
    ELSE c

\* str::to_uppercase on the characters the inputs are made of
to_uppercase(raw) == [i \in 1..Len(raw) |-> char_to_uppercase(raw[i])]

ParseOk(value) == [result |-> "Ok", value |-> value]

ParseErr(raw) == [result |-> "Err", raw |-> raw]

Color_from_str(raw) ==
    LET upper == to_uppercase(raw)
    IN  CASE upper = <<"B", "L", "U", "E">> -> ParseOk("Blue")
          [] upper = <<"Y", "E", "L", "L", "O", "W">> -> ParseOk("Yellow")
          [] upper = <<"R", "E", "D">> -> ParseOk("Red")
          [] upper = <<"G", "R", "E", "E", "N">> -> ParseOk("Green")
          [] OTHER -> ParseErr(raw)

Color_fmt(self) ==
    CASE self = "Blue" -> <<"B", "L", "U", "E">>
      [] self = "Yellow" -> <<"Y", "E", "L", "L", "O", "W">>
      [] self = "Red" -> <<"R", "E", "D">>
      [] self = "Green" -> <<"G", "R", "E", "E", "N">>
      [] self = "None" -> <<"N", "O", "N", "E">>

Team_from_str(raw) ==
    LET upper == to_uppercase(raw)
    IN  CASE upper = <<"N", "O", "N", "E">> -> ParseOk("None")
          [] upper = <<"O", "N", "E">> -> ParseOk("One")
          [] upper = <<"T", "W", "O">> -> ParseOk("Two")
          [] OTHER -> ParseErr(raw)

Team_fmt(self) ==
    CASE self = "None" -> <<"N", "O", "N", "E">>
      [] self = "One" -> <<"O", "N", "E">>
      [] self = "Two" -> <<"T", "W", "O">>

Rotation_from_str(raw) ==
    LET upper == to_uppercase(raw)
    IN  CASE upper = <<"N", "O", "N", "E">> -> ParseOk("None")
          [] upper = <<"R", "I", "G", "H", "T">> -> ParseOk("Right")
          [] upper = <<"M", "I", "R", "R", "O", "R">> -> ParseOk("Mirror")
          [] upper = <<"L", "E", "F", "T">> -> ParseOk("Left")
          [] OTHER -> ParseErr(raw)

Rotation_fmt(self) ==
    CASE self = "None" -> <<"N", "O", "N", "E">>
      [] self = "Right" -> <<"R", "I", "G", "H", "T">>
      [] self = "Mirror" -> <<"M", "I", "R", "R", "O", "R">>
      [] self = "Left" -> <<"L", "E", "F", "T">>

\* the characters of the name each shape of the catalog is created with
NameChars ==
    [name \in DOMAIN PIECE_SHAPES_BY_NAME |->
        CASE name = "MONO" -> <<"M", "O", "N", "O">>
          [] name = "DOMINO" -> <<"D", "O", "M", "I", "N", "O">>
          [] name = "TRIO_L" -> <<"T", "R", "I", "O", "_", "L">>
          [] name = "TRIO_I" -> <<"T", "R", "I", "O", "_", "I">>
          [] name = "TETRO_O" -> <<"T", "E", "T", "R", "O", "_", "O">>
          [] name = "TETRO_T" -> <<"T", "E", "T", "R", "O", "_", "T">>
          [] name = "TETRO_I" -> <<"T", "E", "T", "R", "O", "_", "I">>
          [] name = "TETRO_L" -> <<"T", "E", "T", "R", "O", "_", "L">>
          [] name = "TETRO_Z" -> <<"T", "E", "T", "R", "O", "_", "Z">>
          [] name = "PENTO_L" -> <<"P", "E", "N", "T", "O", "_", "L">>
          [] name = "PENTO_T" -> <<"P", "E", "N", "T", "O", "_", "T">>
          [] name = "PENTO_V" -> <<"P", "E", "N", "T", "O", "_", "V">>
          [] name = "PENTO_S" -> <<"P", "E", "N", "T", "O", "_", "S">>
          [] name = "PENTO_Z" -> <<"P", "E", "N", "T", "O", "_", "Z">>
          [] name = "PENTO_I" -> <<"P", "E", "N", "T", "O", "_", "I">>
          [] name = "PENTO_P" -> <<"P", "E", "N", "T", "O", "_", "P">>
          [] name = "PENTO_W" -> <<"P", "E", "N", "T", "O", "_", "W">>
          [] name = "PENTO_U" -> <<"P", "E", "N", "T", "O", "_", "U">>
          [] name = "PENTO_R" -> <<"P", "E", "N", "T", "O", "_", "R">>
          [] name = "PENTO_X" -> <<"P", "E", "N", "T", "O", "_", "X">>
          [] name = "PENTO_Y" -> <<"P", "E", "N", "T", "O", "_", "Y">>]

\* PIECE_SHAPES_BY_NAME.get(raw): the key is looked up as it is written
PieceShape_from_str(raw) ==
    IF \E name \in DOMAIN PIECE_SHAPES_BY_NAME : NameChars[name] = raw
    THEN ParseOk(PIECE_SHAPES_BY_NAME[CHOOSE name \in DOMAIN PIECE_SHAPES_BY_NAME : NameChars[name] = raw])
    ELSE ParseErr(raw)

PieceShape_fmt(self) == NameChars[self.name]

(***************************************************************************)
(* Calls of from_str and of Display on the four types with a string form   *)
(***************************************************************************)
StringTypes == {"Color", "Team", "Rotation", "PieceShape"}

\* every value of the type; of PieceShape, the shapes of the catalog
ValuesOf(type) ==
    CASE type = "Color" -> Colors \cup {"None"}
      [] type = "Team" -> {"None", "One", "Two"}
      [] type = "Rotation" -> {ROTATIONS[i] : i \in 1..Len(ROTATIONS)}
      [] type = "PieceShape" -> PIECE_SHAPES_SET

fmt(type, self) ==
    CASE type = "Color" -> Color_fmt(self)
      [] type = "Team" -> Team_fmt(self)
      [] type = "Rotation" -> Rotation_fmt(self)
      [] type = "PieceShape" -> PieceShape_fmt(self)

from_str(type, raw) ==
    CASE type = "Color" -> Color_from_str(raw)
      [] type = "Team" -> Team_from_str(raw)
      [] type = "Rotation" -> Rotation_from_str(raw)
      [] type = "PieceShape" -> PieceShape_from_str(raw)

\* the strings Display writes for the values of the type
IdentifiersOf(type) == {fmt(type, value) : value \in ValuesOf(type)}

char_to_lowercase(c) ==
    IF \E i \in 1..Len(UppercaseLetters) : UppercaseLetters[i] = c
    THEN LowercaseLetters[CHOOSE i \in 1..Len(UppercaseLetters) : UppercaseLetters[i] = c]
    ELSE c

\* strings handed to from_str: every identifier, the same in lowercase and
\* with only the first letter in uppercase, and strings that are no
\* identifier in any case
OtherStrings ==
    {<<>>,
     <<"P", "U", "R", "P", "L", "E">>,
     <<"B", "L", "U">>,
     <<"B", "L", "U", "E", "E">>,
     <<" ", "B", "L", "U", "E">>,
     <<"R", "E", "D", " ">>,
     <<"T", "H", "R", "E", "E">>,
     <<"M", "O", "N", "O", "_">>,
     <<"P", "E", "N", "T", "O">>,
     <<"0">>,
     <<"P", "e", "n", "t", "o", "_", "Y">>,
     <<"n", "O", "N", "E">>}

StringInputs ==
    LET identifiers == UNION {IdentifiersOf(type) : type \in StringTypes}
    IN  identifiers
        \cup {[i \in 1..Len(text) |-> char_to_lowercase(text[i])] : text \in identifiers}
        \cup {[i \in 1..Len(text) |-> IF i = 1 THEN text[i] ELSE char_to_lowercase(text[i])] :
                text \in identifiers}
        \cup OtherStrings

InitStrings ==
    /\ debug_assertions \in BOOLEAN
    /\ origin = "new"
    /\ state = GameState_new(PIECE_SHAPES_BY_NAME["PENTO_Y"])
    /\ calls = 0
    /\ last = [op |-> "new", move |-> NoMove, result |-> "Ok", before |-> state]
    /\ successor = <<>>
    /\ generated = <<>>
    /\ generated_equal = <<>>

\* value.to_string().parse()
DisplayThenParse ==
    /\ last.op = "new"
    /\ \E type \in StringTypes :
           \E value \in ValuesOf(type) :
               last' = [op |-> "to_string", type |-> type, value |-> value,
                        text |-> fmt(type, value),
                        parsed |-> from_str(type, fmt(type, value))]
    /\ calls' = calls + 1
    /\ UNCHANGED <<debug_assertions, origin, state, successor, generated, generated_equal>>

\* raw.parse()
ParseString ==
    /\ last.op = "new"
    /\ \E type \in StringTypes :
           \E raw \in StringInputs :
               last' = [op |-> "from_str", type |-> type, raw |-> raw,
                        parsed |-> from_str(type, raw)]
    /\ calls' = calls + 1
    /\ UNCHANGED <<debug_assertions, origin, state, successor, generated, generated_equal>>

NextStrings == DisplayThenParse \/ ParseString

SpecStrings == InitStrings /\ [][NextStrings]_vars

(***************************************************************************)
(* Calls of Board::align, and a Vec2Iterator driven to its end             *)
(***************************************************************************)
InitVectors ==
    /\ debug_assertions \in BOOLEAN
    /\ origin = "new"
    /\ state = GameState_new(PIECE_SHAPES_BY_NAME["PENTO_Y"])
    /\ calls = 0
    /\ last = [op |-> "new", move |-> NoMove, result |-> "Ok", before |-> state]
    /\ successor = <<>>
    /\ generated = <<>>
    /\ generated_equal = <<>>

Align ==
    /\ last.op = "new"
    /\ \E area \in [x : 0..MaxArea, y : 0..MaxArea], i \in 1..Len(CORNERS) :
           last' = [op |-> "align", area |-> area, corner |-> CORNERS[i],
                    value |-> Board_align(area, CORNERS[i])]
    /\ calls' = calls + 1
    /\ UNCHANGED <<debug_assertions, origin, state, successor, generated, generated_equal>>

IntoIter ==
    /\ last.op = "new"
    /\ \E v \in [x : (-1)..MaxTarget, y : (-1)..MaxTarget] :
           \E created \in {Vec2_into_iter(v)} :
               last' = [op |-> "into_iter", result |-> created.result,
                        iterator |-> created, yielded |-> <<>>,
                        exhausted |-> FALSE]
    /\ calls' = calls + 1
    /\ UNCHANGED <<debug_assertions, origin, state, successor, generated, generated_equal>>

\* one call of next(); the loop over the iterator ends at the first None
IteratorNext ==
    /\ last.op \in {"into_iter", "next"}
    /\ last.result = "Ok"
    /\ ~last.exhausted
    /\ \E r \in {Vec2Iterator_next(last.iterator)} :
           last' = [op |-> "next", result |-> "Ok",
                    iterator |-> r.iterator,
                    yielded |-> last.yielded \o r.item,
                    exhausted |-> r.item = <<>>]
    /\ calls' = calls + 1
    /\ UNCHANGED <<debug_assertions, origin, state, successor, generated, generated_equal>>

NextVectors == Align \/ IntoIter \/ IteratorNext

\* a loop over an iterator keeps calling next() until it returns None
SpecVectors == InitVectors /\ [][NextVectors]_vars /\ WF_vars(IteratorNext)

(***************************************************************************)
(* Properties                                                              *)
(***************************************************************************)
Performed == last.op = "perform_move"

Succeeded == Performed /\ last.result = "Ok"

\* the color to move before the last call exists
HadCurrentColor == current_color_in_range(last.before)

\* C1: after a successful perform(Set{piece}) no shape named piece.kind is
\* left in undeployed[piece.color], whatever the rotation and flip, and no
\* other shape has left any inventory.
C1_PlacedKindLeavesInventory ==
    (Succeeded /\ last.move.type = "Set") =>
        LET piece == last.move.piece
        IN  /\ \A s \in undeployed_shapes_of_color(state, piece.color) :
                   s.name # piece.kind.name
            /\ \A c \in Colors :
                   \A s \in undeployed_shapes_of_color(last.before, c) :
                       s \notin undeployed_shapes_of_color(state, c)
                           => (c = piece.color /\ s.name = piece.kind.name)

\* C2: in a position that is not a first move, every Set move of the color
\* to move that passes validate_set_move is one of possible_moves().
C2_GenerationComplete ==
    (/\ Performed /\ last.move.type = "Set" /\ HadCurrentColor
     /\ ~is_first_move(last.before)
     /\ last.move.piece.color = current_color(last.before)
     /\ validate_set_move(last.before, last.move.piece) = "Ok")
        => possible_moves(last.before, last.move)

\* C3: every move of possible_moves() has the color to move and perform of it
\* on the same position succeeds; a Set move among them passes
\* validate_set_move, a Skip is there only when the position is not a first
\* move.
C3_GenerationSound ==
    (Performed /\ HadCurrentColor /\ possible_moves(last.before, last.move))
        => /\ Move_color(last.move) = current_color(last.before)
           /\ last.result = "Ok"
           /\ last.move.type = "Set"
                  => validate_set_move(last.before, last.move.piece) = "Ok"
           /\ last.move.type = "Skip" => ~is_first_move(last.before)

\* a generated Set move was performed in a position that is not a first move
C3_Witness ==
    /\ Performed /\ HadCurrentColor
    /\ ~is_first_move(last.before)
    /\ last.move.type = "Set"
    /\ possible_moves(last.before, last.move)

\* C4: corners_on_color(v, c) holds iff one of the four diagonal neighbours
\* of v has color c (stated for the cells of the piece of a Set move).
C4_CornersOnColorAllDiagonals ==
    (Performed /\ last.move.type = "Set") =>
        \A v \in Piece_coordinates(last.move.piece) :
            corners_on_color(last.before.board, v, last.move.piece.color)
                <=> \E o \in {Vec2(1, 1), Vec2(1, -1), Vec2(-1, 1), Vec2(-1, -1)} :
                        Board_get(last.before.board, vec_add(v, o))
                            = last.move.piece.color

\* C5: a successful perform increments round by one iff
\* (turn_before mod len(ordered_colors)) + 1 >= len(ordered_colors), and
\* leaves it unchanged otherwise.
C5_RoundIncrements ==
    Succeeded =>
        LET len == Len(last.before.ordered_colors)
        IN  IF (last.before.turn % len) + 1 >= len
            THEN state.round = last.before.round + 1
            ELSE state.round = last.before.round

\* C6: after a successful perform (Set or Skip) turn is the turn before plus
\* one.
C6_TurnIncrements == Succeeded => state.turn = last.before.turn + 1

\* a Set move was committed in a game started from a fresh position
C6_Witness ==
    /\ Succeeded /\ last.move.type = "Set"
    /\ origin = "new" /\ debug_assertions /\ calls > 1

C7_WitnessEmptied ==
    /\ Succeeded /\ HadCurrentColor
    /\ undeployed_shapes_of_color(state, current_color(last.before)) = {}
    /\ Len(state.ordered_colors) = 4
    /\ current_color(state) = "Yellow"

\* C8: a perform that returns an error leaves the position as it was.
C8_NoPartialCommit ==
    (Performed /\ last.result \notin {"Ok", "panic"}) => state = last.before

\* C9: perform(Skip{current_color}) fails with SkipInFirstMove and changes
\* nothing on a first move; otherwise it succeeds and only advances the
\* cursor by one (turn and cursor; board, inventories and the rest stay).
C9_Skip ==
    (Performed /\ HadCurrentColor /\ last.move = Skip(current_color(last.before)))
        => IF is_first_move(last.before)
           THEN last.result = "SkipInFirstMove" /\ state = last.before
           ELSE /\ last.result = "Ok"
                /\ state = [last.before EXCEPT
                       !.current_color_index = (@ + 1) % Len(last.before.ordered_colors),
                       !.turn = @ + 1,
                       !.round = state.round]

\* a Skip of the color to move succeeded
C9_Witness ==
    /\ Succeeded /\ last.move.type = "Skip"
    /\ last.move.color = current_color(last.before)

\* C10 as claimed: perform of a move whose color is not the color to move
\* fails with MoveColorMismatch and changes nothing.
C10_ColorMismatchFails ==
    (Performed /\ HadCurrentColor
     /\ Move_color(last.move) # current_color(last.before))
        => last.result = "MoveColorMismatch" /\ state = last.before

\* C10 as amended: in a build with debug assertions, perform of a move whose
\* color is not the color to move fails with MoveColorMismatch, before any
\* other rule, and changes nothing.
C10_ColorMismatchFailsInDebug ==
    (debug_assertions /\ Performed /\ HadCurrentColor
     /\ Move_color(last.move) # current_color(last.before))
        => last.result = "MoveColorMismatch" /\ state = last.before

\* perform(Skip{Yellow}) on a fresh position failed with MoveColorMismatch
C10_Witness ==
    /\ debug_assertions /\ Performed /\ origin = "new" /\ calls = 1
    /\ last.move = Skip("Yellow")
    /\ last.result = "MoveColorMismatch"

\* C11: after_move(move) leaves the receiver as it was, whether it succeeds
\* or fails; when it succeeds, the position it returns is the one perform(move)
\* makes of a copy of the receiver (and it fails exactly when that fails).
C11_AfterMovePure ==
    last.op = "after_move" =>
        LET performed == perform_move(last.before, last.move, debug_assertions)
        IN  /\ state = last.before
            /\ last.result = performed.result
            /\ last.result = "Ok" => successor = <<performed.state>>
            /\ last.result # "Ok" => successor = <<>>

\* after_move of a Set move returned a successor with the piece on its board
C11_Witness ==
    /\ last.op = "after_move" /\ last.result = "Ok"
    /\ last.move.type = "Set"
    /\ Len(successor) = 1
    /\ successor[1].board # state.board
    /\ successor[1].turn = state.turn + 1

\* after_move failed on a position that had moves behind it
C11_WitnessFailed ==
    /\ last.op = "after_move" /\ last.result \notin {"Ok", "panic"}
    /\ calls > 1

Generated == last.op = "possible_moves" /\ last.result = "Ok"

\* C12: two equal positions yield the same sequence of moves from
\* possible_moves(), in the same order, in a first-move position and in one
\* that is not.
C12_GenerationDeterministic == Generated => generated = generated_equal

\* C13: in a first-move position possible_moves() is possible_first_moves():
\* the validating placements of start_piece among the 32 candidates with
\* position = align(bounding box of the transformed shape, corner), in the
\* order rotation (none, left, right, mirror), then flip before no-flip, then
\* corner (TL, TR, BL, BR); there is no Skip in it.
C13_FirstMoves ==
    (Generated /\ is_first_move(last.before)) =>
        LET self == last.before
            rotations == <<"None", "Left", "Right", "Mirror">>
            flips == <<TRUE, FALSE>>
            corners == <<"TopLeft", "TopRight", "BottomLeft", "BottomRight">>
            candidate(i) ==
                LET rotation == rotations[((i - 1) \div 8) + 1]
                    is_flipped == flips[(((i - 1) \div 4) % 2) + 1]
                    corner == corners[((i - 1) % 4) + 1]
                    box == bounding_box(transform(self.start_piece, rotation, is_flipped))
                IN  Piece(self.start_piece, rotation, is_flipped,
                          current_color(self), Board_align(box, corner))
            valid(piece) == validate_set_move(self, piece) = "Ok"
            expected == SelectSeq([i \in 1..32 |-> candidate(i)], valid)
        IN  /\ generated = [i \in 1..Len(expected) |-> Set(expected[i])]
            /\ generated = possible_first_moves(self)
            /\ \A i \in 1..Len(generated) : generated[i].type = "Set"

\* possible_moves() was asked of Yellow after the first move of Blue in a
\* fresh game, and some of the 32 candidates did not validate
C13_Witness ==
    /\ Generated /\ is_first_move(last.before)
    /\ origin = "new" /\ calls = 2
    /\ current_color(last.before) = "Yellow"
    /\ Len(generated) > 0 /\ Len(generated) < 32

\* all 32 candidates of a start piece that is not symmetric validated
C13_WitnessAll ==
    /\ Generated /\ is_first_move(last.before)
    /\ last.before.start_piece.name = "TRIO_I"
    /\ Len(generated) = 32

SetOfColorToMove ==
    /\ last.op \in {"perform_move", "after_move"}
    /\ last.move.type = "Set"
    /\ HadCurrentColor
    /\ last.move.piece.color = current_color(last.before)

\* C15: on a first move, a Set move whose kind is not start_piece is rejected
\* with NotStartShape and one whose kind is start_piece passes the shape
\* check whatever its rotation and flip; on a move that is not a first move,
\* a Set move whose kind is not in undeployed[color] is rejected with
\* PieceAlreadyPlaced.  (The rejection is that of validate_set_move, which
\* perform runs in a build with debug assertions.)
C15_ShapeAvailability ==
    SetOfColorToMove =>
        LET self == last.before
            piece == last.move.piece
            validation == validate_set_move(self, piece)
            rejected(kind) ==
                /\ validation = kind
                /\ debug_assertions => (last.result = kind /\ state = self)
        IN  /\ (is_first_move(self) /\ piece.kind.name # self.start_piece.name)
                   => rejected("NotStartShape")
            /\ (is_first_move(self) /\ piece.kind.name = self.start_piece.name)
                   => /\ validate_shape(self, piece.kind, piece.color) = "Ok"
                      /\ validation \notin {"NotStartShape", "PieceAlreadyPlaced"}
            /\ (/\ ~is_first_move(self)
                /\ \A s \in undeployed_shapes_of_color(self, piece.color) :
                       s.name # piece.kind.name)
                   => rejected("PieceAlreadyPlaced")

\* in a fresh game Blue, whose MONO is on the board, sets a MONO again
C15_Witness ==
    /\ SetOfColorToMove /\ origin = "new" /\ debug_assertions
    /\ ~is_first_move(last.before)
    /\ last.move.piece.kind.name = "MONO"
    /\ last.result = "PieceAlreadyPlaced"

\* a kind that is not the start piece was rejected on a first move
C15_WitnessNotStart ==
    /\ SetOfColorToMove /\ debug_assertions
    /\ is_first_move(last.before)
    /\ last.result = "NotStartShape"

\* the start piece, turned and flipped, was accepted on a first move
C15_WitnessTurned ==
    /\ SetOfColorToMove /\ debug_assertions
    /\ is_first_move(last.before)
    /\ last.move.piece.kind.name = "TRIO_I"
    /\ last.move.piece.rotation = "Left" /\ last.move.piece.is_flipped
    /\ last.result = "Ok"

\* C16: on a first move, a Set move of the start piece whose cells are all in
\* bounds, unobstructed and not edge-adjacent to the own color validates iff
\* one of its cells is (0,0), (19,0), (0,19) or (19,19), and fails with
\* MissingCornerAnchor otherwise; the diagonal-touch rule is not applied on a
\* first move.  With start piece MONO the monomino validates at (0,0) and
\* fails with MissingCornerAnchor at (0,1).
C16_CornerAnchor ==
    /\ (SetOfColorToMove /\ is_first_move(last.before)) =>
           LET self == last.before
               piece == last.move.piece
               cells == Piece_coordinates(piece)
               validation == validate_set_move(self, piece)
               clear ==
                   \A c \in cells :
                       /\ c.x >= 0 /\ c.x < 20 /\ c.y >= 0 /\ c.y < 20
                       /\ Board_get(self.board, c) = "None"
                       /\ \A o \in {Vec2(1, 0), Vec2(0, 1), Vec2(-1, 0), Vec2(0, -1)} :
                              Board_get(self.board, vec_add(c, o)) # piece.color
               anchored ==
                   \E c \in cells :
                       c \in {Vec2(0, 0), Vec2(19, 0), Vec2(0, 19), Vec2(19, 19)}
           IN  /\ validation # "MissingDiagonalTouch"
               /\ (piece.kind.name = self.start_piece.name /\ clear) =>
                      /\ anchored => validation = "Ok"
                      /\ ~anchored => validation = "MissingCornerAnchor"
                      /\ debug_assertions => last.result = validation
    /\ LET fresh == GameState_new(PIECE_SHAPES_BY_NAME["MONO"])
           mono(position) ==
               Piece(PIECE_SHAPES_BY_NAME["MONO"], "None", FALSE, "Blue", position)
       IN  /\ validate_set_move(fresh, mono(Vec2(0, 0))) = "Ok"
           /\ validate_set_move(fresh, mono(Vec2(0, 1))) = "MissingCornerAnchor"

\* a start piece clear of everything but off the corners was rejected
C16_Witness ==
    /\ SetOfColorToMove /\ is_first_move(last.before) /\ debug_assertions
    /\ last.op = "perform_move"
    /\ last.move.piece.kind.name = last.before.start_piece.name
    /\ last.before.board # Board_new
    /\ last.result = "MissingCornerAnchor"

\* a start piece with a cell on the bottom right corner was accepted with no
\* own cell on the board
C16_WitnessAccepted ==
    /\ SetOfColorToMove /\ is_first_move(last.before) /\ debug_assertions
    /\ last.op = "perform_move"
    /\ Vec2(19, 19) \in Piece_coordinates(last.move.piece)
    /\ last.result = "Ok"

\* C17: in every position reached from a fresh position by successful perform
\* calls, no cell outside [0,20) x [0,20) is colored, and a colored cell is
\* one that a placed piece covers (a perform colors no cell but those of the
\* piece of its Set move).
C17_BoardInBounds ==
    (origin = "new" /\ last.result = "Ok") =>
        /\ \A f \in state.board :
               f.content # "None" =>
                   /\ f.position.x >= 0 /\ f.position.x < 20
                   /\ f.position.y >= 0 /\ f.position.y < 20
        /\ Performed =>
               \A f \in state.board :
                   f.content # "None" =>
                       \/ Board_get(last.before.board, f.position) = f.content
                       \/ /\ last.move.type = "Set"
                          /\ f.position \in Piece_coordinates(last.move.piece)

\* C18: after a successful perform(Set{piece}) exactly the cells
\* position + c, c in the transformed shape, changed, each from none to
\* piece.color; there are as many as the shape has cells; every other cell
\* kept its color, so the number of colored cells grew by the cell count of
\* the piece.
C18_PlacementConservation ==
    (Succeeded /\ last.move.type = "Set") =>
        LET piece == last.move.piece
            cells == {vec_add(piece.position, c) :
                         c \in PieceShape_coordinates(
                                   transform(piece.kind, piece.rotation, piece.is_flipped))}
            touched == {f.position : f \in state.board \cup last.before.board}
        IN  /\ \A c \in cells :
                   /\ Board_get(last.before.board, c) = "None"
                   /\ Board_get(state.board, c) = piece.color
            /\ Cardinality(cells) = Cardinality(PieceShape_coordinates(piece.kind))
            /\ \A p \in touched \ cells :
                   Board_get(state.board, p) = Board_get(last.before.board, p)
            /\ count_obstructed(state.board) =
                   count_obstructed(last.before.board) + Cardinality(cells)

\* C19: across any perform, successful or failed, no inventory grows (each
\* undeployed[c] after is a subset of the one before); the inventories of the
\* three colors other than the color of the move stay as they are, and a Skip
\* leaves every inventory as it is.
C19_InventoryMonotone ==
    Performed =>
        \A c \in Colors :
            LET before == undeployed_shapes_of_color(last.before, c)
                after == undeployed_shapes_of_color(state, c)
            IN  /\ after \subseteq before
                /\ Cardinality(after) <= Cardinality(before)
                /\ c # Move_color(last.move) => after = before
                /\ last.move.type = "Skip" => after = before

\* a Set move took a shape out of the inventory of its color
C19_Witness ==
    /\ Succeeded /\ last.move.type = "Set"
    /\ Cardinality(undeployed_shapes_of_color(state, last.move.piece.color))
           < Cardinality(undeployed_shapes_of_color(last.before, last.move.piece.color))

\* a Set move of a color that is not the color to move was committed
C19_WitnessOtherColor ==
    /\ Succeeded /\ last.move.type = "Set" /\ HadCurrentColor
    /\ last.move.piece.color # current_color(last.before)

\* C20: in every position reached from a fresh position by successful
\* performs, last_move_mono has an entry for color c iff undeployed[c] is
\* empty, and the entry tells whether the last piece c placed was the
\* monomino: a Set move of c that leaves or finds the inventory of c empty
\* writes it, and no other move changes it.
C20_LastMoveMono ==
    (origin = "new" /\ last.result = "Ok") =>
        /\ \A c \in Colors :
               c \in DOMAIN state.last_move_mono
                   <=> undeployed_shapes_of_color(state, c) = {}
        /\ Performed =>
               \A c \in DOMAIN state.last_move_mono :
                   IF last.move.type = "Set" /\ last.move.piece.color = c
                   THEN state.last_move_mono[c]
                            = (last.move.piece.kind.name = "MONO")
                   ELSE /\ c \in DOMAIN last.before.last_move_mono
                        /\ state.last_move_mono[c] = last.before.last_move_mono[c]

\* Blue emptied its inventory with the monomino, TRIO_I having gone before
C20_Witness ==
    /\ Succeeded /\ debug_assertions /\ calls = 5
    /\ last.move.type = "Set" /\ last.move.piece.kind.name = "MONO"
    /\ state.blue_shapes = {}
    /\ DOMAIN state.last_move_mono = {"Blue"}
    /\ state.last_move_mono["Blue"]

\* Blue emptied its inventory with TRIO_I: the entry is false
C20_WitnessNotMono ==
    /\ Succeeded /\ last.move.type = "Set"
    /\ last.move.piece.kind.name = "TRIO_I"
    /\ state.blue_shapes = {}
    /\ "Blue" \in DOMAIN state.last_move_mono
    /\ ~state.last_move_mono["Blue"]

\* the entry of Blue stayed while another color moved
C20_WitnessKept ==
    /\ Succeeded /\ last.move.type = "Skip" /\ last.move.color = "Yellow"
    /\ "Blue" \in DOMAIN state.last_move_mono

\* the number of cells a shape of the catalog has by its name
CellsOfName(name) ==
    IF name = "MONO" THEN 1
    ELSE IF name = "DOMINO" THEN 2
    ELSE IF name \in {"TRIO_L", "TRIO_I"} THEN 3
    ELSE IF name \in {"TETRO_O", "TETRO_T", "TETRO_I", "TETRO_L", "TETRO_Z"} THEN 4
    ELSE 5

RECURSIVE CellsOfNames(_)
CellsOfNames(shapes) ==
    IF shapes = {}
    THEN 0
    ELSE LET p == CHOOSE p \in shapes : TRUE
         IN  CellsOfName(p.name) + CellsOfNames(shapes \ {p})

\* C21: get_points_from_undeployed gives 104 for the empty set with
\* mono_last false and 109 with mono_last true; for a non-empty set of
\* catalog shapes it gives 89 minus the cells of the shapes in the set,
\* whatever mono_last is, a value between 0 and 88; the catalog has 89 cells
\* and scores 0.
C21_Points ==
    last.op = "get_points_from_undeployed" =>
        /\ last.undeployed = {} =>
               last.value = (IF last.mono_last THEN 109 ELSE 104)
        /\ last.undeployed # {} =>
               /\ last.value = 89 - CellsOfNames(last.undeployed)
               /\ last.value = get_points_from_undeployed(last.undeployed,
                                                          ~last.mono_last)
               /\ last.value \in 0..88
        /\ CellsOfNames(PIECE_SHAPES_SET) = 89
        /\ last.undeployed = PIECE_SHAPES_SET => last.value = 0

\* the points of an inventory that lacks two shapes, after a last move that
\* was a MONO
C21_Witness ==
    /\ last.op = "get_points_from_undeployed"
    /\ Cardinality(last.undeployed) = Len(PIECE_SHAPES) - 2
    /\ last.mono_last
    /\ last.value > 0

\* equality of shapes on the name and the set of cells
SameShape(a, b) ==
    /\ a.name = b.name
    /\ PieceShape_coordinates(a) = PieceShape_coordinates(b)

TransformLaws(shape) ==
    /\ SameShape(transform(shape, "None", FALSE), shape)
    /\ SameShape(turn_right(turn_right(turn_right(turn_right(shape)))), shape)
    /\ SameShape(flip(flip(shape)), shape)

\* C22: for every shape of the catalog and every variant of it,
\* transform(S, none, false) is S, four turn_right give S back and two flip
\* give S back.
C22_TransformLaws ==
    last.op = "transform" =>
        /\ TransformLaws(last.kind)
        /\ TransformLaws(last.value)

\* a variant that differs from its catalog shape, got by a turn and a flip
C22_Witness ==
    /\ last.op = "transform"
    /\ last.rotation = "Right" /\ last.is_flipped
    /\ ~SameShape(last.value, last.kind)
    /\ ~SameShape(turn_right(last.value), last.value)
    /\ ~SameShape(flip(last.value), last.value)

InWindow(c) ==
    c.x >= 0 /\ c.y >= 0 /\ c.x < MAX_SIDE_LENGTH /\ c.y < MAX_SIDE_LENGTH

\* C23: for every shape of the catalog and every (rotation, flip), the
\* aligned cells transform builds the result from lie in the 5x5 window and
\* have component-wise minimum (0, 0); none is lost or folded onto another
\* bit: the result has these cells and as many as the shape had.
C23_TransformInWindow ==
    last.op = "transform" =>
        /\ \A c \in last.aligned : InWindow(c)
        /\ \E c \in last.aligned : c.x = 0
        /\ \E c \in last.aligned : c.y = 0
        /\ PieceShape_coordinates(last.value) = last.aligned
        /\ Cardinality(PieceShape_coordinates(last.value)) = CellsOfName(last.kind.name)
        /\ Cardinality(last.value.coordinates) = CellsOfName(last.kind.name)

\* a transform that turns a shape four cells wide upright
C23_Witness ==
    /\ last.op = "transform"
    /\ last.rotation # "None"
    /\ \E c \in PieceShape_coordinates(last.kind) : c.x = 3
    /\ \E c \in last.aligned : c.y = 3

\* C24: a CoordinateSet built from a set S of cells of the 5x5 window
\* iterates over exactly the cells of S, each once, by increasing y and then
\* increasing x; contains(v) is true exactly for the cells of S, and false
\* for every v outside the window.
C24_CoordinateSetRoundTrip ==
    last.op = "CoordinateSet" =>
        /\ Len(last.iterated) = Cardinality(last.cells)
        /\ {last.iterated[k] : k \in 1..Len(last.iterated)} = last.cells
        /\ \A j, k \in 1..Len(last.iterated) :
               j < k => \/ last.iterated[j].y < last.iterated[k].y
                        \/ /\ last.iterated[j].y = last.iterated[k].y
                           /\ last.iterated[j].x < last.iterated[k].x
        /\ last.contained = last.cells
        /\ CoordinateSet_into_iter(last.bits) = last.cells

\* a set of cells in two rows, given with a cell whose index (5) is the one
\* of a cell outside the window, (5, 0)
C24_Witness ==
    /\ last.op = "CoordinateSet"
    /\ Vec2(0, 1) \in last.cells
    /\ Vec2(4, 0) \in last.cells
    /\ Len(last.iterated) = 2

\* possible_moves() yields at least one move
possible_moves_any(self) ==
    IF is_first_move(self)
    THEN possible_first_moves(self) # <<>>
    ELSE \/ validate_skip(self) = "Ok"
         \/ \E kind \in undeployed_shapes_of_color(self, current_color(self)) :
                usual_set_moves_of_kind(self, kind) # <<>>

\* a position of a game the client plays from GameState::new(PENTO_Y)
PlayedFromPentoY ==
    /\ origin = "new"
    /\ state.start_piece = PIECE_SHAPES_BY_NAME["PENTO_Y"]
    /\ last.op \in {"new", "request_move"}

FirstTurnColors == <<"Blue", "Yellow", "Red", "Green">>

CellsOfColor(fields, color) == {f \in fields : f.content = color}

\* C25: in a game played from the fresh position with start piece PENTO_Y
\* by moves of possible_moves(), at the turns 0 to 3 the color to move is
\* Blue, Yellow, Red, Green (teams One, Two, One, Two), is_first_move()
\* holds, possible_moves() is not empty, and the cells the earlier colors
\* placed are on the board.
C25_FirstFourTurns ==
    (PlayedFromPentoY /\ state.turn <= 3) =>
        /\ last.result = "Ok"
        /\ current_color_in_range(state)
        /\ current_color(state) = FirstTurnColors[state.turn + 1]
        /\ current_team(state) = (IF state.turn % 2 = 0 THEN "One" ELSE "Two")
        /\ is_first_move(state)
        /\ possible_moves_any(state)
        /\ \A t \in 1..state.turn :
               Cardinality(CellsOfColor(state.board, FirstTurnColors[t]))
                   = CellsOfName("PENTO_Y")
        /\ last.op = "request_move" =>
               \A f \in last.before.board : f \in state.board
        /\ state.turn = 0 =>
               /\ state.round = 1
               /\ state.board = Board_new
               /\ current_color(state) = state.start_color
               /\ current_team(state) = state.start_team

\* Green is to move after Blue, Yellow and Red have placed their PENTO_Y
C25_Witness ==
    /\ PlayedFromPentoY /\ state.turn = 3
    /\ last.op = "request_move" /\ last.move.type = "Set"
    /\ last.move.piece.color = "Red"
    /\ CellsOfColor(state.board, "Blue") # {}
    /\ CellsOfColor(state.board, "Yellow") # {}

\* C27: in every position of a game played from the fresh position with
\* start piece PENTO_Y by moves of possible_moves(), possible_moves() is
\* not empty: request_move never panics with "No move found".
C27_NoStuckPosition ==
    PlayedFromPentoY =>
        /\ last.result # "panic"
        /\ last.result = "Ok" => possible_moves_any(state)

\* the first move the client found covers the cell of the corner its
\* bounding box is anchored in
FirstMoveInCorner(game_move) ==
    /\ game_move.type = "Set"
    /\ \E i \in 1..Len(CORNERS) :
           /\ game_move.piece.position =
                  Board_align(bounding_box(Piece_shape(game_move.piece)), CORNERS[i])
           /\ corner_position(CORNERS[i]) \in Piece_coordinates(game_move.piece)

\* GameState::new(s) has a possible first move, for the shapes s named
FirstMoveExists(names) ==
    /\ (origin = "new" /\ state.turn = 0 /\ state.start_piece.name \in names)
           => possible_moves_any(state)
    /\ (/\ origin = "new" /\ last.op = "request_move"
        /\ last.before.turn = 0 /\ last.before.start_piece.name \in names)
           => /\ last.result = "Ok"
              /\ FirstMoveInCorner(last.move)

\* C28 as claimed: for every one of the 21 shapes s of the catalog,
\* GameState::new(s) has a possible first move: a rotation/flip of s,
\* anchored with its bounding box in a corner of the board, that covers the
\* cell of that corner.
C28_FirstMoveExists == FirstMoveExists({p.name : p \in PIECE_SHAPES_SET})

\* C28 as amended: the same for every shape of the catalog but PENTO_X; no
\* transform of PENTO_X has a cell in a corner of its bounding box, and
\* GameState::new(PENTO_X) has no possible move.
C28_FirstMoveExistsButPentoX ==
    /\ FirstMoveExists({p.name : p \in PIECE_SHAPES_SET} \ {"PENTO_X"})
    /\ (origin = "new" /\ state.turn = 0 /\ state.start_piece.name = "PENTO_X")
           => ~possible_moves_any(state)

\* the client found a first move with start piece PENTO_S, in the bottom
\* right corner
C28_Witness ==
    /\ origin = "new" /\ last.op = "request_move" /\ last.result = "Ok"
    /\ last.before.turn = 0
    /\ last.before.start_piece.name = "PENTO_S"
    /\ Vec2(BOARD_SIZE - 1, BOARD_SIZE - 1) \in Piece_coordinates(last.move.piece)

\* C26: in a game of successful performs from a fresh position no color
\* places a kind twice, and is_first_move() is false at every turn of a color
\* that has placed a piece.  Over the first two rounds the piece a color has
\* on the board is its start piece: a Set move of the start piece by a color
\* that has cells on the board does not succeed; and whenever the color to
\* move has cells on the board, is_first_move() is false.
C26_KindPlacedOnce ==
    origin = "new" =>
        /\ (/\ Succeeded /\ last.move.type = "Set"
            /\ last.before.turn < 2 * Len(last.before.ordered_colors)
            /\ last.move.piece.kind.name = last.before.start_piece.name)
               => CellsOfColor(last.before.board, last.move.piece.color) = {}
        /\ (/\ last.op \in {"new", "perform_move"} /\ last.result = "Ok"
            /\ current_color_in_range(state)
            /\ CellsOfColor(state.board, current_color(state)) # {})
               => ~is_first_move(state)

\* the cells share an edge
EdgeAdjacent(a, b) ==
    \/ (a.x = b.x /\ (a.y = b.y + 1 \/ b.y = a.y + 1))
    \/ (a.y = b.y /\ (a.x = b.x + 1 \/ b.x = a.x + 1))

\* borders_on_color(v, c) holds iff one of the four edge neighbours of v has
\* color c (stated for the cells of the piece of a Set move)
BordersOnColorAllEdges ==
    (Performed /\ last.move.type = "Set") =>
        \A v \in Piece_coordinates(last.move.piece) :
            borders_on_color(last.before.board, v, last.move.piece.color)
                <=> \E f \in CellsOfColor(last.before.board, last.move.piece.color) :
                        EdgeAdjacent(f.position, v)

\* the Set move performed last put no cell next to a cell of its own color
\* that was on the board before
NoEdgeNeighborOfOwnColor ==
    \A v \in Piece_coordinates(last.move.piece) :
        \A f \in CellsOfColor(last.before.board, last.move.piece.color) :
            ~EdgeAdjacent(f.position, v)

\* C30: in every position reached from a fresh position by successful
\* performs, two edge-adjacent cells of one color belong to one piece: no
\* successful Set move puts a cell next to a cell of its own color placed
\* earlier; borders_on_color looks at the four edge neighbours.
C30_NoEdgeNeighborOfOwnColor ==
    /\ BordersOnColorAllEdges
    /\ (origin = "new" /\ Succeeded /\ last.move.type = "Set")
           => NoEdgeNeighborOfOwnColor

\* the same for the Set moves that pass validate_set_move, which are all the
\* successful ones in a build with debug assertions
C30_ValidatedNoEdgeNeighbor ==
    /\ BordersOnColorAllEdges
    /\ (/\ Succeeded /\ last.move.type = "Set"
        /\ debug_assertions
               \/ (/\ HadCurrentColor
                   /\ validate_set_move(last.before, last.move.piece) = "Ok"))
           => NoEdgeNeighborOfOwnColor

\* a second piece of a color was committed in a game from a fresh position
C30_Witness ==
    /\ Succeeded /\ last.move.type = "Set"
    /\ debug_assertions /\ origin = "new"
    /\ CellsOfColor(last.before.board, last.move.piece.color) # {}

\* a Set move next to a cell of its own color was rejected for that
C30_WitnessRejected ==
    /\ Performed /\ last.move.type = "Set"
    /\ last.result = "EdgeNeighborSameColor"

\* the fields of a position that try_advance assigns
AdvancedFields == {"current_color_index", "round", "turn"}

C29_WitnessGameOver ==
    /\ last.op = "try_advance"
    /\ last.turns > 0
    /\ last.before.ordered_colors = <<>>
    /\ last.result = "GameOver"

\* C31: the string Display writes for a value of Color, Team or Rotation or
\* for a shape of the catalog parses back to that value, and a string that
\* is not the identifier of a value of the type does not parse.
C31_StringRoundTrip ==
    /\ last.op = "to_string" =>
           /\ last.parsed.result = "Ok"
           /\ last.parsed.value = last.value
    /\ (last.op = "from_str" /\ last.raw \notin IdentifiersOf(last.type)) =>
           last.parsed.result = "Err"

\* what holds of the code: every value but Color::None is parsed back, and
\* a string does not parse when, put in uppercase (for a shape: as it is),
\* it is not the identifier of a value the type parses
C31_RoundTripOfParsedValues ==
    /\ (last.op = "to_string" /\ ~(last.type = "Color" /\ last.value = "None")) =>
           /\ last.parsed.result = "Ok"
           /\ last.parsed.value = last.value
    /\ (last.op = "to_string" /\ last.type = "Color" /\ last.value = "None") =>
           last.parsed.result = "Err"
    /\ last.op = "from_str" =>
           LET read == IF last.type = "PieceShape" THEN last.raw ELSE to_uppercase(last.raw)
               parsed_identifiers ==
                   IF last.type = "Color"
                   THEN IdentifiersOf("Color") \ {Color_fmt("None")}
                   ELSE IdentifiersOf(last.type)
           IN  (last.parsed.result = "Ok") <=> (read \in parsed_identifiers)

\* C32: for every shape S of the catalog, rotate(S, Mirror) is S turned
\* right twice, rotate(S, Left) is S turned right three times, and
\* rotate(rotate(S, Right), Left) is S.
C32_RotationsAreRightTurns ==
    (last.op = "transform" /\ ~last.is_flipped) =>
        /\ last.rotation = "Mirror" =>
               SameShape(last.value, turn_right(turn_right(last.kind)))
        /\ last.rotation = "Left" =>
               SameShape(last.value, turn_right(turn_right(turn_right(last.kind))))
        /\ last.rotation = "Right" =>
               SameShape(rotate(last.value, "Left"), last.kind)

\* a shape whose half turn is neither the shape nor its quarter turn nor its
\* flip
C32_Witness ==
    /\ last.op = "transform"
    /\ ~last.is_flipped
    /\ last.rotation = "Mirror"
    /\ ~SameShape(last.value, last.kind)
    /\ ~SameShape(last.value, turn_right(last.kind))
    /\ ~SameShape(last.value, flip(last.kind))

\* the cells of the rectangle from anchor to anchor + area
Rectangle(anchor, area) ==
    [x : anchor.x..(anchor.x + area.x), y : anchor.y..(anchor.y + area.y)]

\* C33: Board::align(area, corner) is (0,0) for TopLeft, (19 - area.x, 0)
\* for TopRight, (0, 19 - area.y) for BottomLeft and (19,19) - area for
\* BottomRight; for an area with components from 0 to 4 the rectangle from
\* the anchor to anchor + area lies on the board and holds the corner cell.
C33_AlignToCorner ==
    last.op = "align" =>
        /\ last.corner = "TopLeft" => last.value = Vec2(0, 0)
        /\ last.corner = "TopRight" => last.value = Vec2(19 - last.area.x, 0)
        /\ last.corner = "BottomLeft" => last.value = Vec2(0, 19 - last.area.y)
        /\ last.corner = "BottomRight" =>
               last.value = Vec2(19 - last.area.x, 19 - last.area.y)
        /\ (last.area.x \in 0..4 /\ last.area.y \in 0..4) =>
               /\ \A c \in Rectangle(last.value, last.area) : is_in_bounds(c)
               /\ corner_position(last.corner) \in Rectangle(last.value, last.area)

\* a box that is wider than high, aligned to the top right corner
C33_Witness ==
    /\ last.op = "align"
    /\ last.corner = "TopRight"
    /\ last.area.x = 4 /\ last.area.y = 1
    /\ last.value = Vec2(15, 0)

IteratorCreated == last.op \in {"into_iter", "next"} /\ last.result = "Ok"

YieldedInRowMajorOrder ==
    LET v == last.iterator.target
    IN  /\ Len(last.yielded) <= (v.x + 1) * (v.y + 1)
        /\ \A i \in 1..Len(last.yielded) :
               last.yielded[i] = Vec2((i - 1) % (v.x + 1), (i - 1) \div (v.x + 1))
        /\ last.exhausted =>
               /\ Len(last.yielded) = (v.x + 1) * (v.y + 1)
               /\ {last.yielded[i] : i \in 1..Len(last.yielded)} = [x : 0..v.x, y : 0..v.y]
               /\ \A i, j \in 1..Len(last.yielded) :
                      last.yielded[i] = last.yielded[j] => i = j

\* C34: the iterator over a vector v with v.x >= 0 and v.y >= 0 ends, and
\* has then yielded exactly the (v.x+1)*(v.y+1) points (i, j) with
\* 0 <= i <= v.x and 0 <= j <= v.y, each once, y outer and x inner;
\* creating it for a vector with a negative component fails.
C34_IteratorYieldsRectangle ==
    /\ [](IteratorCreated => YieldedInRowMajorOrder)
    /\ [](last.op = "into_iter" =>
            ((last.result = "panic") <=>
                (last.iterator.target.x < 0 \/ last.iterator.target.y < 0)))
    /\ (IteratorCreated ~> (IteratorCreated /\ last.exhausted))

\* an iterator over more than one row and column that has ended
C34_Witness ==
    /\ IteratorCreated
    /\ last.exhausted
    /\ last.iterator.target.x >= 2
    /\ last.iterator.target.y >= 1
    /\ Len(last.yielded) = (last.iterator.target.x + 1) * (last.iterator.target.y + 1)

\* creating the iterator for a vector with a negative component
C34_WitnessNegative ==
    /\ last.op = "into_iter"
    /\ last.iterator.target.x >= 0
    /\ last.iterator.target.y < 0
    /\ last.result = "panic"

====
